---- MODULE Spec2Model ----
(***************************************************************************)
(* Procura: the BOM-processing workflow (backend/agents/orchestrator.py),  *)
(* its catalog search and PO grouping tools, and the API handlers that     *)
(* start, cancel and review runs.  The relational store is modelled as the *)
(* tables boms, tasks, items, approvals and pos; every committed database  *)
(* transaction of the code is one step.  Confidences and similarities are  *)
(* in thousandths (0.8 is 800).                                            *)
(***************************************************************************)
EXTENDS Integers, Sequences, FiniteSets, TLC

\* ------------------------------------------------------------------ bounds
\* most line items in an uploaded BOM file
MaxItems == 2
\* most processing tasks ever created for the BOM
MaxTasks == 2
\* most line items of the file when the BOM is processed repeatedly
MaxRetryItems == 1
\* rows of the uploaded file when decisions and purchase orders are followed
MaxOrderItems == 1
\* items in a list handed to the grouping directly
MaxGroupInput == 3
\* characters of a part number looked up directly
MaxPNLen == 4
\* decisions being handled at the same time
MaxInflight == 2
\* rows of approval_requests
MaxApprovals == 3
\* rows of each file when two BOMs are processed at the same time
MaxPairItems == 1
\* rows the purchase_orders table holds at most, deleted ones included
MaxPos == 3
\* purchase orders in the store when their lifecycle is followed
MaxOrders == 2

\* ------------------------------------------------------ program constants
Null == -1
NoPN == <<>>
NoDesc == ""
MatchConfidenceThreshold == 800
ExactConfidence == 1000
FuzzyConfidence == 850
MinSimilarity == 500
TopK == 5
CatalogTop == 10
MissingPriceKey == 9999999
\* prices and costs are DECIMAL(15, 4): kept in ten-thousandths of a dollar
PriceScale == 10000
\* purchase_orders.subtotal and total are DECIMAL(15, 2): whole cents
CentUnit == 100
PoApprovalThreshold == 10000
RateLimitRequests == 60

\* ----------------------------------------------------------- sequences
RECURSIVE SeqRange(_, _, _)
\* Python slice s[lo:hi] with 0-based lo (inclusive) and hi (exclusive)
SeqRange(s, lo, hi) ==
    IF lo >= hi \/ lo >= Len(s) THEN <<>>
    ELSE <<s[lo + 1]>> \o SeqRange(s, lo + 1, hi)

RECURSIVE FilterSeq(_, _)
\* the subsequence of s whose elements are in the set keep
FilterSeq(s, keep) ==
    IF s = <<>> THEN <<>>
    ELSE (IF Head(s) \in keep THEN <<Head(s)>> ELSE <<>>) \o FilterSeq(Tail(s), keep)

RECURSIVE IsPrefix(_, _)
IsPrefix(p, s) ==
    IF p = <<>> THEN TRUE
    ELSE IF s = <<>> THEN FALSE
    ELSE Head(p) = Head(s) /\ IsPrefix(Tail(p), Tail(s))

RECURSIVE Contains(_, _)
\* Python `p in s` on strings: p occurs in s as a contiguous substring
Contains(s, p) ==
    IF IsPrefix(p, s) THEN TRUE
    ELSE IF s = <<>> THEN FALSE
    ELSE Contains(Tail(s), p)

\* --------------------------------------------------------- part numbers
\* A part number is a sequence of one-character strings.
UpperChar(c) ==
    CASE c = "a" -> "A"
      [] c = "b" -> "B"
      [] c = "z" -> "Z"
      [] OTHER -> c

RECURSIVE NormalizePN(_)
\* .strip().upper().replace("-", "").replace(" ", "")
NormalizePN(s) ==
    IF s = <<>> THEN <<>>
    ELSE IF Head(s) \in {"-", " "} THEN NormalizePN(Tail(s))
    ELSE <<UpperChar(Head(s))>> \o NormalizePN(Tail(s))

\* ---------------------------------------------------------------- catalog
\* The supplier catalog of the organization (tables suppliers, parts,
\* supplier_parts), fixed during a run.
Suppliers ==
    << [id |-> 1, status |-> "active"],
       [id |-> 2, status |-> "active"],
       [id |-> 3, status |-> "active"],
       [id |-> 4, status |-> "inactive"] >>

Parts ==
    << [id |-> 1, part_number |-> <<"A", "B", "1">>],
       [id |-> 2, part_number |-> <<"A", "B", "-", "1", "2">>],
       [id |-> 3, part_number |-> <<"X", "Y", "9">>] >>

SupplierParts ==
    << [id |-> 1, supplier_id |-> 1, part_id |-> 1, supplier_part_number |-> <<"a", "b", "-", "1">>,
        unit_price |-> 50000, is_preferred |-> FALSE],
       [id |-> 2, supplier_id |-> 2, part_id |-> 1, supplier_part_number |-> <<"S", "-", "7">>,
        unit_price |-> 40125, is_preferred |-> TRUE],
       [id |-> 3, supplier_id |-> 3, part_id |-> 1, supplier_part_number |-> <<>>,
        unit_price |-> Null, is_preferred |-> FALSE],
       [id |-> 4, supplier_id |-> 1, part_id |-> 2, supplier_part_number |-> <<"A", "B", "1", "2">>,
        unit_price |-> 30000, is_preferred |-> FALSE],
       [id |-> 5, supplier_id |-> 2, part_id |-> 2, supplier_part_number |-> <<"Q", "A", "B", "1">>,
        unit_price |-> 0, is_preferred |-> FALSE],
       [id |-> 6, supplier_id |-> 3, part_id |-> 2, supplier_part_number |-> <<>>,
        unit_price |-> 60000, is_preferred |-> TRUE],
       [id |-> 7, supplier_id |-> 4, part_id |-> 1, supplier_part_number |-> <<"B", "2">>,
        unit_price |-> 10000, is_preferred |-> TRUE],
       [id |-> 8, supplier_id |-> 1, part_id |-> 3, supplier_part_number |-> <<"X", "Y", "9">>,
        unit_price |-> 50000000, is_preferred |-> FALSE],
       [id |-> 9, supplier_id |-> 2, part_id |-> 3, supplier_part_number |-> <<"X", "9">>,
        unit_price |-> Null, is_preferred |-> FALSE] >>

SupplierById(sid) == CHOOSE i \in 1..Len(Suppliers) : Suppliers[i].id = sid
PartById(pid) == CHOOSE i \in 1..Len(Parts) : Parts[i].id = pid

\* cosine similarity (thousandths) of a description's embedding to a part's
Similarity(desc, part_id) ==
    CASE desc = "D1" /\ part_id = 1 -> 796
      [] desc = "D1" /\ part_id = 2 -> 620
      [] desc = "D1" /\ part_id = 3 -> 480
      [] desc = "D2" /\ part_id = 3 -> 800
      [] desc = "D2" /\ part_id = 1 -> 796
      [] OTHER -> 100

\* ------------------------------------------------------- candidate order
\* sort key (-confidence, -int(is_preferred), unit_price or 9999999)
\* the price key as <<whole dollars, ten-thousandths>>
PriceKey(m) ==
    IF m.unit_price = Null \/ m.unit_price = 0 THEN <<MissingPriceKey, 0>>
    ELSE <<m.unit_price \div PriceScale, m.unit_price % PriceScale>>
PriceLess(p, q) == p[1] < q[1] \/ (p[1] = q[1] /\ p[2] < q[2])
PrefKey(m) == IF m.is_preferred THEN 0 ELSE 1

KeyLess(a, b) ==
    \/ a.confidence > b.confidence
    \/ a.confidence = b.confidence /\ PrefKey(a) < PrefKey(b)
    \/ a.confidence = b.confidence /\ PrefKey(a) = PrefKey(b) /\ PriceLess(PriceKey(a), PriceKey(b))

RECURSIVE InsertSorted(_, _)
\* x goes after every element that is not greater than it (list.sort is stable)
InsertSorted(sorted, x) ==
    IF sorted = <<>> THEN <<x>>
    ELSE IF KeyLess(x, Head(sorted)) THEN <<x>> \o sorted
    ELSE <<Head(sorted)>> \o InsertSorted(Tail(sorted), x)

RECURSIVE SortMatches(_)
SortMatches(ms) ==
    IF ms = <<>> THEN <<>>
    ELSE InsertSorted(SortMatches(SeqRange(ms, 0, Len(ms) - 1)), ms[Len(ms)])

Candidate(sp, conf, method) ==
    [supplier_id |-> sp.supplier_id, supplier_part_id |-> sp.id, part_id |-> sp.part_id,
     unit_price |-> sp.unit_price, is_preferred |-> sp.is_preferred,
     confidence |-> conf, match_method |-> method]

\* ------------------------------------------------------- catalog search
ActiveSupplierParts ==
    FilterSeq(SupplierParts,
              {sp \in {SupplierParts[i] : i \in 1..Len(SupplierParts)} :
                  Suppliers[SupplierById(sp.supplier_id)].status = "active"})

\* an exact tier that compares the part number only
IsExactMatch_partonly(sp, pn) ==
    NormalizePN(Parts[PartById(sp.part_id)].part_number) = pn

IsExactMatch(sp, pn) ==
    \/ NormalizePN(sp.supplier_part_number) = pn
    \/ NormalizePN(Parts[PartById(sp.part_id)].part_number) = pn

IsFuzzyMatch(sp, pn) ==
    /\ ~IsExactMatch(sp, pn)
    /\ \/ Contains(NormalizePN(sp.supplier_part_number), pn)
       \/ Contains(NormalizePN(Parts[PartById(sp.part_id)].part_number), pn)

RECURSIVE TierMatches(_, _, _)
\* the candidates of one tier, in catalog order
TierMatches(sps, pn, tier) ==
    IF sps = <<>> THEN <<>>
    ELSE (IF tier = "exact" /\ IsExactMatch(Head(sps), pn)
            THEN <<Candidate(Head(sps), ExactConfidence, "exact")>>
          ELSE IF tier = "fuzzy" /\ IsFuzzyMatch(Head(sps), pn)
            THEN <<Candidate(Head(sps), FuzzyConfidence, "fuzzy")>>
          ELSE <<>>) \o TierMatches(Tail(sps), pn, tier)

search_supplier_catalog_impl(part_number) ==
    LET pn == NormalizePN(part_number)
        all_matches == TierMatches(ActiveSupplierParts, pn, "exact")
                         \o TierMatches(ActiveSupplierParts, pn, "fuzzy")
    IN  SeqRange(SortMatches(all_matches), 0, CatalogTop)

\* parts by ascending cosine distance, i.e. descending similarity
RECURSIVE InsertBySimilarity(_, _, _)
InsertBySimilarity(sorted, p, desc) ==
    IF sorted = <<>> THEN <<p>>
    ELSE IF Similarity(desc, p.id) > Similarity(desc, Head(sorted).id) THEN <<p>> \o sorted
    ELSE <<Head(sorted)>> \o InsertBySimilarity(Tail(sorted), p, desc)

RECURSIVE PartsByDistance(_, _)
PartsByDistance(ps, desc) ==
    IF ps = <<>> THEN <<>>
    ELSE InsertBySimilarity(PartsByDistance(SeqRange(ps, 0, Len(ps) - 1), desc), ps[Len(ps)], desc)

RECURSIVE SupplierOptions(_, _, _)
SupplierOptions(sps, part_id, conf) ==
    IF sps = <<>> THEN <<>>
    ELSE (IF Head(sps).part_id = part_id
            THEN <<Candidate(Head(sps), conf, "semantic")>> ELSE <<>>)
         \o SupplierOptions(Tail(sps), part_id, conf)

RECURSIVE SemanticCollect(_, _, _)
\* the loop over the nearest parts: skip below the floor, stop at top_k
SemanticCollect(results, desc, matches) ==
    IF results = <<>> THEN matches
    ELSE LET similarity == Similarity(desc, Head(results).id)
         IN  IF similarity < MinSimilarity
               THEN SemanticCollect(Tail(results), desc, matches)
             ELSE LET m2 == matches \o SupplierOptions(ActiveSupplierParts, Head(results).id, similarity)
                  IN  IF Len(m2) >= TopK THEN m2
                      ELSE SemanticCollect(Tail(results), desc, m2)

semantic_part_search_impl(description) ==
    LET results == SeqRange(PartsByDistance(Parts, description), 0, TopK * 2)
    IN  SeqRange(SortMatches(SemanticCollect(results, description, <<>>)), 0, TopK)

\* ---------------------------------------------------------------- progress
\* Progress values are floats; they are kept as exact fractions <<n, d>>.
RECURSIVE GCD(_, _)
GCD(a, b) == IF b = 0 THEN a ELSE GCD(b, a % b)

Frac(n, d) == LET g == GCD(n, d) IN <<n \div g, d \div g>>
Whole(n) == <<n, 1>>
ProgLE(a, b) == a[1] * b[2] <= b[1] * a[2]

\* the interpolation without its base of 30
MatchProgress_nobase(idx, total_items) == Frac(30 * idx, total_items)

\* progress = 30 + (idx / total_items * 30)
MatchProgress(idx, total_items) == Frac(30 * total_items + 30 * idx, total_items)

\* ------------------------------------------------------------ the inputs
BomIds == {1}
FileTypes == {"csv", "pdf"}

\* rows a BOM file can hold: at least one of part number and description
ParsedItemKinds ==
    { [part_number_raw |-> <<"a", "b", "-", "1">>, description_raw |-> NoDesc, quantity |-> 2],
      [part_number_raw |-> NoPN, description_raw |-> "D1", quantity |-> 2],
      [part_number_raw |-> NoPN, description_raw |-> "D2", quantity |-> 2],
      [part_number_raw |-> <<"z", "z">>, description_raw |-> NoDesc, quantity |-> 2],
      [part_number_raw |-> <<"z", "z">>, description_raw |-> "D2", quantity |-> 2] }

RowLists(max) == UNION { [1..n -> ParsedItemKinds] : n \in 0..max }

\* what the file holds: rows, or nothing a parser can read
FileContents(max) == {[readable |-> TRUE, rows |-> rs] : rs \in RowLists(max)}
                       \cup {[readable |-> FALSE, rows |-> <<>>]}

\* the rate-limit key does not exist
NoKey == [value |-> 0, ttl |-> FALSE, exists |-> FALSE]

VARIABLES
    boms,            \* table boms: id -> row
    tasks,           \* table agent_tasks: sequence of rows, id = index
    items,           \* table bom_items: sequence of rows in id order
    next_item_id,    \* the bom_items id sequence
    approvals,       \* table approval_requests: sequence of rows, id = index
    pos,             \* table purchase_orders with their po_items, id = index
    runs,            \* task id -> the WorkflowState and position of its run
    openai_api_key,  \* settings.openai_api_key is set
    inflight,        \* API requests being handled: what each handler has read so far
    grouping,        \* a direct use of group_items_by_supplier_impl: its input and results
    lookup,          \* a direct use of search_supplier_catalog_impl: its input and result
    cache,           \* the Redis key ratelimit:<ip> of one client: its value and whether it has a TTL
    admitted         \* requests of that client the limiter let through since the key was created

vars == <<boms, tasks, items, next_item_id, approvals, pos, runs, openai_api_key, inflight, grouping, lookup, cache, admitted>>

TaskIds == 1..Len(tasks)
BomExists(b) == b \in DOMAIN boms

NewTask(b) ==
    [entity_id |-> b, status |-> "pending", progress |-> Whole(0), error_message |-> ""]

NewRun ==
    [pc |-> "queued", error |-> "", parsed_items |-> <<>>, matched_items |-> <<>>,
     unmatched_items |-> <<>>, review_items |-> <<>>, needs_human_review |-> FALSE,
     draft_pos |-> <<>>, completed |-> FALSE,
     file_type |-> "", file |-> [readable |-> FALSE, rows |-> <<>>],
     sess |-> <<>>, idx |-> 0, best_match |-> <<>>, semantic_error |-> FALSE,
     groups |-> <<>>, confirm |-> {}, po_number |-> Null, exc |-> ""]

\* the database after upload_bom, with or without auto_process, of a file
\* of at most max rows
Uploaded(max) ==
    /\ \E ft \in FileTypes, fc \in FileContents(max), auto_process \in BOOLEAN :
         /\ ft = "pdf" => fc = [readable |-> FALSE, rows |-> <<>>]
         /\ boms = [b \in BomIds |->
                      [source_file_type |-> ft, file |-> fc,
                       processing_status |-> IF auto_process THEN "pending" ELSE "draft",
                       processing_progress |-> Whole(0), processing_error |-> "",
                       total_items |-> 0, matched_items |-> 0]]
         /\ tasks = IF auto_process THEN <<NewTask(1)>> ELSE <<>>
         /\ runs = IF auto_process THEN <<NewRun>> ELSE <<>>
    /\ items = <<>>
    /\ next_item_id = 1
    /\ approvals = <<>>
    /\ pos = <<>>
    /\ openai_api_key \in BOOLEAN
    /\ inflight = {}
    /\ grouping = <<>>
    /\ lookup = <<>>
    /\ cache = NoKey
    /\ admitted = 0

Init == Uploaded(MaxItems)

\* ------------------------------------------------------ progress reporter
update_task_progress(ts, t, progress) ==
    IF t \in 1..Len(ts) THEN [ts EXCEPT ![t].progress = progress] ELSE ts

update_bom_progress(bs, b, status, progress) ==
    IF b \in DOMAIN bs
      THEN [bs EXCEPT ![b].processing_status = status, ![b].processing_progress = progress]
      ELSE bs

\* ------------------------------------------------------------ the graph
check_error(st) == IF st.error # "" THEN "error" ELSE "continue"

\* should_review sending every run to review
should_review_always(st) == "review"

should_review(st) ==
    IF st.needs_human_review /\ st.review_items # <<>> THEN "review" ELSE "generate"

\* the graph with the review node wired back to the matcher
GraphNext_rematch(node, st) ==
    CASE node = "parser" -> IF check_error(st) = "error" THEN "END" ELSE "matcher"
      [] node = "matcher" -> IF should_review(st) = "review" THEN "human_review" ELSE "po_generator"
      [] node = "human_review" -> "matcher"
      [] node = "po_generator" -> "completion"
      [] node = "completion" -> "END"

\* the edges of create_bom_workflow
GraphNext(node, st) ==
    CASE node = "parser" -> IF check_error(st) = "error" THEN "END" ELSE "matcher"
      [] node = "matcher" -> IF should_review(st) = "review" THEN "human_review" ELSE "po_generator"
      [] node = "human_review" -> "po_generator"
      [] node = "po_generator" -> "completion"
      [] node = "completion" -> "END"

\* the first step of a node
EntryPc(node) ==
    CASE node = "parser" -> "parser_task10"
      [] node = "matcher" -> "matcher_task30"
      [] node = "human_review" -> "human_review"
      [] node = "po_generator" -> "po_task70"
      [] node = "completion" -> "completion"
      [] node = "END" -> "ended"

Goto(t, node_done, st) == [runs EXCEPT ![t] = [st EXCEPT !.pc = EntryPc(GraphNext(node_done, st))]]

\* ------------------------------------------------------------- the tables
ItemIds(rows) == {rows[i].id : i \in 1..Len(rows)}
ItemById(rows, id) == rows[CHOOSE i \in 1..Len(rows) : rows[i].id = id]
ItemsOfBom(rows, b) == FilterSeq(rows, {rows[i] : i \in {j \in 1..Len(rows) : rows[j].bom_id = b}})
TaskBom(t) == tasks[t].entity_id

\* BOMItem(...) as parser_node adds it
NewItem(id, b, line) ==
    [id |-> id, bom_id |-> b, line_number |-> line.line_number,
     part_number_raw |-> line.part_number_raw, description_raw |-> line.description_raw,
     quantity |-> line.quantity, status |-> "pending",
     matched_supplier_id |-> Null, matched_supplier_part_id |-> Null,
     unit_cost |-> Null, extended_cost |-> Null, match_confidence |-> Null,
     match_method |-> "", alternative_matches |-> <<>>, review_reason |-> ""]

\* ------------------------------------------------------------ the parser
\* parse_excel_bom / parse_csv_bom or the unsupported-type branch
ParseResult(file_type, file) ==
    IF file_type \in {"excel", "csv"}
      THEN IF file.readable
             THEN [success |-> TRUE, error |-> "",
                   items |-> [i \in 1..Len(file.rows) |->
                                [line_number |-> i,
                                 part_number_raw |-> file.rows[i].part_number_raw,
                                 description_raw |-> file.rows[i].description_raw,
                                 quantity |-> file.rows[i].quantity]]]
             ELSE [success |-> FALSE, error |-> "Could not detect BOM columns. Please ensure columns are labeled.",
                   items |-> <<>>]
      ELSE [success |-> FALSE, error |-> "Unsupported file type: " \o file_type, items |-> <<>>]

\* ------------------------------------------------------------ the matcher
\* a matcher that never tries the semantic tier
FindMatches_catalogonly(bom_item, key, sem_ok) ==
    IF bom_item.part_number_raw # NoPN
      THEN search_supplier_catalog_impl(bom_item.part_number_raw) ELSE <<>>

\* lines 189-209: the catalog tier, then the semantic tier
FindMatches(bom_item, key, sem_ok) ==
    LET r == IF bom_item.part_number_raw # NoPN
               THEN search_supplier_catalog_impl(bom_item.part_number_raw) ELSE <<>>
    IN  IF r # <<>> THEN r
        ELSE IF bom_item.description_raw # NoDesc /\ key /\ sem_ok
          THEN semantic_part_search_impl(bom_item.description_raw)
        ELSE <<>>

SemanticTried(bom_item, key) ==
    /\ bom_item.description_raw # NoDesc
    /\ key
    /\ \/ bom_item.part_number_raw = NoPN
       \/ search_supplier_catalog_impl(bom_item.part_number_raw) = <<>>

\* the slice taken from the best candidate on: matches[0:5]
Alternatives_withbest(matches) == SeqRange(matches, 0, 5)

\* result["matches"][1:5]
Alternatives(matches) == SeqRange(matches, 1, 5)

\* the threshold made inclusive: confidence <= threshold
NeedsReview_inclusive(confidence) == confidence <= MatchConfidenceThreshold

\* best_match["confidence"] < settings.match_confidence_threshold
NeedsReview(confidence) == confidence < MatchConfidenceThreshold

\* a confidence as the column DECIMAL(3, 2) keeps it
RoundCent(c) == ((c + 5) \div 10) * 10

AltRecord(alt) ==
    [supplier_id |-> alt.supplier_id, supplier_part_id |-> alt.supplier_part_id,
     unit_price |-> alt.unit_price, confidence |-> alt.confidence]

\* lines 211-257: the match annotations and the status of one item
ApplyMatch(bom_item, matches) ==
    IF matches # <<>>
      THEN LET best_match == matches[1]
               alternatives == Alternatives(matches)
               unit_cost == IF best_match.unit_price = Null \/ best_match.unit_price = 0
                              THEN Null ELSE best_match.unit_price
           IN  [bom_item EXCEPT
                  !.matched_supplier_id = best_match.supplier_id,
                  !.matched_supplier_part_id = best_match.supplier_part_id,
                  !.unit_cost = unit_cost,
                  !.match_confidence = RoundCent(best_match.confidence),
                  !.match_method = best_match.match_method,
                  !.alternative_matches = [i \in 1..Len(alternatives) |-> AltRecord(alternatives[i])],
                  !.status = IF NeedsReview(best_match.confidence) THEN "needs_review" ELSE "matched",
                  !.review_reason = IF NeedsReview(best_match.confidence)
                                      THEN "Low confidence match" ELSE @,
                  !.extended_cost = IF unit_cost # Null THEN unit_cost * bom_item.quantity ELSE @]
      ELSE [bom_item EXCEPT !.status = "needs_review",
                            !.review_reason = "No supplier match found"]

\* the entry appended to review_items, if any
ReviewEntries(updated, matches) ==
    IF matches = <<>>
      THEN <<[bom_item_id |-> updated.id, match_confidence |-> 0, alternatives |-> <<>>]>>
    ELSE IF NeedsReview(matches[1].confidence)
      THEN <<[bom_item_id |-> updated.id, match_confidence |-> matches[1].confidence,
              alternatives |-> updated.alternative_matches]>>
    ELSE <<>>

\* ------------------------------------------------------------- grouping
RECURSIVE AddToGroup(_, _, _)
AddToGroup(grouped, supplier_id, entry) ==
    IF grouped = <<>> THEN <<[supplier_id |-> supplier_id, items |-> <<entry>>]>>
    ELSE IF Head(grouped).supplier_id = supplier_id
      THEN <<[Head(grouped) EXCEPT !.items = Append(@, entry)]>> \o Tail(grouped)
    ELSE <<Head(grouped)>> \o AddToGroup(Tail(grouped), supplier_id, entry)

RECURSIVE GroupInto(_, _)
GroupInto(grouped, bom_items) ==
    IF bom_items = <<>> THEN grouped
    ELSE LET item == Head(bom_items)
         IN  IF item.matched_supplier_id = Null \/ item.matched_supplier_id = 0
               THEN GroupInto(grouped, Tail(bom_items))
             ELSE GroupInto(AddToGroup(grouped, item.matched_supplier_id,
                                       [bom_item_id |-> item.id,
                                        supplier_part_id |-> item.matched_supplier_part_id,
                                        quantity |-> item.quantity,
                                        unit_price |-> item.unit_cost]),
                            Tail(bom_items))

\* a grouping that opens a group for every item
group_items_by_supplier_impl_ungrouped(bom_items) ==
    [i \in 1..Len(bom_items) |->
       [supplier_id |-> bom_items[i].matched_supplier_id,
        items |-> <<[bom_item_id |-> bom_items[i].id,
                     supplier_part_id |-> bom_items[i].matched_supplier_part_id,
                     quantity |-> bom_items[i].quantity,
                     unit_price |-> bom_items[i].unit_cost]>>]]

\* a dict supplier_id -> items, kept as the sequence of its entries in insertion order
group_items_by_supplier_impl(bom_items) == GroupInto(<<>>, bom_items)

\* lines 349-381: the items the generator reads, as dicts
\* a generator that takes every item with a supplier, whatever its status
EligibleItems_anystatus(rows, b) ==
    FilterSeq(rows, {rows[i] : i \in {j \in 1..Len(rows) :
                        /\ rows[j].bom_id = b
                        /\ rows[j].matched_supplier_id # Null}})

EligibleItems(rows, b) ==
    FilterSeq(rows, {rows[i] : i \in {j \in 1..Len(rows) :
                        /\ rows[j].bom_id = b
                        /\ rows[j].status \in {"matched", "confirmed"}
                        /\ rows[j].matched_supplier_id # Null}})

ItemsDict(rows) ==
    [i \in 1..Len(rows) |-> [rows[i] EXCEPT !.unit_cost = IF @ = Null \/ @ = 0 THEN 0 ELSE @]]

\* purchase_orders ids are never reused: a row that delete_purchase_order
\* removed leaves this marker at its id, and no query returns it
DeletedPo ==
    [po_number |-> Null, supplier_id |-> Null, bom_id |-> Null, is_auto_generated |-> FALSE,
     status |-> "deleted", items |-> <<>>, subtotal |-> 0, total |-> 0,
     requires_approval |-> FALSE]

\* the ids of the rows select(PurchaseOrder) returns
PoIds(po_rows) == {p \in 1..Len(po_rows) : po_rows[p] # DeletedPo}

\* the sequence part of the PO number: the count of the purchase orders plus
\* one (all requests fall in one month, so the YYYYMM part is the same)
generate_po_number_impl(po_rows) == Cardinality(PoIds(po_rows)) + 1

RECURSIVE SumExtended(_)
SumExtended(po_items) ==
    IF po_items = <<>> THEN 0 ELSE Head(po_items).extended_price + SumExtended(Tail(po_items))

\* an amount as a DECIMAL(15, 2) column keeps it: rounded half up to the cent
StoreCents(amount) == ((amount + CentUnit \div 2) \div CentUnit) * CentUnit

\* the purchase order create_po_draft_impl adds, with its lines
create_po_draft_impl(po_rows, supplier_id, group_items, bom_id) ==
    LET po_items == [i \in 1..Len(group_items) |->
                       [line_number |-> i, bom_item_id |-> group_items[i].bom_item_id,
                        quantity |-> group_items[i].quantity,
                        unit_price |-> group_items[i].unit_price,
                        extended_price |-> group_items[i].unit_price * group_items[i].quantity,
                        received_quantity |-> 0]]
        subtotal == SumExtended(po_items)
    IN  [po_number |-> generate_po_number_impl(po_rows), supplier_id |-> supplier_id,
         bom_id |-> bom_id, is_auto_generated |-> bom_id # Null, status |-> "draft",
         items |-> po_items, subtotal |-> StoreCents(subtotal), total |-> StoreCents(subtotal),
         requires_approval |-> subtotal >= PoApprovalThreshold * PriceScale]

\* a supplier lookup that finds nothing
SupplierExists_never(sid) == FALSE

SupplierExists(sid) == \E i \in 1..Len(Suppliers) : Suppliers[i].id = sid

\* a generator that leaves the item statuses as they are
ConfirmRows_skipped(rows, ids) == rows

\* UPDATE bom_items SET status = 'confirmed' for the rows the session changed
ConfirmRows(rows, ids) ==
    [i \in 1..Len(rows) |-> IF rows[i].id \in ids THEN [rows[i] EXCEPT !.status = "confirmed"] ELSE rows[i]]

\* UPDATE of the rows a session holds; other rows are untouched
WriteRows(rows, sess) ==
    [i \in 1..Len(rows) |-> IF rows[i].id \in ItemIds(sess) THEN ItemById(sess, rows[i].id) ELSE rows[i]]

\* ------------------------------------------------------ failure handling
\* process_bom_workflow, lines 568-578: what the except block writes
FailTask(ts, t, msg) ==
    IF t \in 1..Len(ts) THEN [ts EXCEPT ![t].status = "failed", ![t].error_message = msg] ELSE ts

\* the except block forgetting the BOM record
FailBom_skipped(bs, b, msg) == bs

FailBom(bs, b, msg) ==
    IF b \in DOMAIN bs
      THEN [bs EXCEPT ![b].processing_status = "failed", ![b].processing_error = msg]
      ELSE bs

\* an exception leaves the node: the open session is rolled back
Abort(st, msg) ==
    [st EXCEPT !.pc = "handler", !.exc = msg, !.sess = <<>>, !.idx = 0, !.best_match = <<>>,
               !.semantic_error = FALSE, !.groups = <<>>, !.confirm = {}, !.po_number = Null]

RaisePcs ==
    {"parser_task10", "parser_bom10", "parser_parse", "parser_task25", "parser_bom25",
     "matcher_task30", "matcher_bom30", "matcher_load", "matcher_loop",
     "matcher_task60", "matcher_bom60", "human_review",
     "po_task70", "po_bom70", "po_load", "po_create", "po_task90", "po_bom90", "completion"}

\* ------------------------------------------------- process_bom_workflow
\* lines 527-556: load the BOM, mark the task running, build the initial state
StartRun(t) ==
    /\ runs[t].pc = "queued"
    /\ LET b == TaskBom(t)
       IN  IF ~BomExists(b)
             THEN /\ runs' = [runs EXCEPT ![t].pc = "ended"]
                  /\ UNCHANGED tasks
             ELSE /\ tasks' = [tasks EXCEPT ![t].status = "running"]
                  /\ runs' = [runs EXCEPT ![t].pc = EntryPc("parser"),
                                          ![t].file_type = boms[b].source_file_type,
                                          ![t].file = boms[b].file]
    /\ UNCHANGED <<boms, items, next_item_id, approvals, pos, openai_api_key, inflight, grouping, lookup, cache, admitted>>

\* a step that only reports task progress
TaskProgressStep(t, from, progress, to) ==
    /\ runs[t].pc = from
    /\ tasks' = update_task_progress(tasks, t, progress)
    /\ runs' = [runs EXCEPT ![t].pc = to]
    /\ UNCHANGED <<boms, items, next_item_id, approvals, pos, openai_api_key, inflight, grouping, lookup, cache, admitted>>

\* a step that only reports BOM progress
BomProgressStep(t, from, status, progress, to) ==
    /\ runs[t].pc = from
    /\ boms' = update_bom_progress(boms, TaskBom(t), status, progress)
    /\ runs' = [runs EXCEPT ![t].pc = to]
    /\ UNCHANGED <<tasks, items, next_item_id, approvals, pos, openai_api_key, inflight, grouping, lookup, cache, admitted>>

ParserTask10(t) == TaskProgressStep(t, "parser_task10", Whole(10), "parser_bom10")
ParserBom10(t) == BomProgressStep(t, "parser_bom10", "parsing", Whole(10), "parser_parse")

\* po_items.bom_item_id is ON DELETE SET NULL: the lines that referenced the
\* deleted items lose the reference
ClearItemRefs(po_rows, ids) ==
    [p \in 1..Len(po_rows) |->
       [po_rows[p] EXCEPT !.items =
          [k \in 1..Len(po_rows[p].items) |->
             IF po_rows[p].items[k].bom_item_id \in ids
               THEN [po_rows[p].items[k] EXCEPT !.bom_item_id = Null]
               ELSE po_rows[p].items[k]]]]

\* a parser that keeps the items an earlier run stored
ReplaceItems_appending(rows, b, new_rows) == rows \o new_rows

\* parser_node, lines 132-147: the BOM's items are deleted and the parsed ones added
ReplaceItems(rows, b, new_rows) ==
    FilterSeq(rows, {rows[i] : i \in {j \in 1..Len(rows) : rows[j].bom_id # b}}) \o new_rows

\* parser_node, lines 98-150: parse, then replace the BOM's items
ParserParse(t) ==
    /\ runs[t].pc = "parser_parse"
    /\ LET b == TaskBom(t)
           st == runs[t]
           result == ParseResult(st.file_type, st.file)
           n == Len(result.items)
       IN  IF ~result.success
             THEN /\ runs' = Goto(t, "parser", [st EXCEPT !.error = result.error, !.parsed_items = <<>>])
                  /\ UNCHANGED <<boms, items, next_item_id, pos>>
             ELSE /\ runs' = [runs EXCEPT ![t].parsed_items = result.items, ![t].pc = "parser_task25"]
                  /\ IF BomExists(b)
                       THEN /\ items' = ReplaceItems(items, b,
                                             [i \in 1..n |-> NewItem(next_item_id + i - 1, b, result.items[i])])
                            /\ next_item_id' = next_item_id + n
                            /\ boms' = [boms EXCEPT ![b].total_items = n,
                                                    ![b].processing_progress = Whole(25)]
                            /\ pos' = ClearItemRefs(pos, ItemIds(ItemsOfBom(items, b)))
                       ELSE UNCHANGED <<boms, items, next_item_id, pos>>
    /\ UNCHANGED <<tasks, approvals, openai_api_key, inflight, grouping, lookup, cache, admitted>>

ParserTask25(t) == TaskProgressStep(t, "parser_task25", Whole(25), "parser_bom25")

ParserBom25(t) ==
    /\ runs[t].pc = "parser_bom25"
    /\ boms' = update_bom_progress(boms, TaskBom(t), "parsing", Whole(25))
    /\ runs' = Goto(t, "parser", runs[t])
    /\ UNCHANGED <<tasks, items, next_item_id, approvals, pos, openai_api_key, inflight, grouping, lookup, cache, admitted>>

MatcherTask30(t) == TaskProgressStep(t, "matcher_task30", Whole(30), "matcher_bom30")
MatcherBom30(t) == BomProgressStep(t, "matcher_bom30", "matching", Whole(30), "matcher_load")

\* matcher_node, lines 176-182: open the session and read the BOM's items
MatcherLoad(t) ==
    /\ runs[t].pc = "matcher_load"
    /\ LET b == TaskBom(t)
           st == runs[t]
       IN  IF ~BomExists(b)
             THEN runs' = Goto(t, "matcher", [st EXCEPT !.error = "BOM not found"])
             ELSE runs' = [runs EXCEPT ![t].sess = ItemsOfBom(items, b), ![t].idx = 0,
                                       ![t].matched_items = <<>>, ![t].unmatched_items = <<>>,
                                       ![t].review_items = <<>>, ![t].pc = "matcher_loop"]
    /\ UNCHANGED <<boms, tasks, items, next_item_id, approvals, pos, openai_api_key, inflight, grouping, lookup, cache, admitted>>

\* the loop without the try block around the semantic search
MatcherItem_uncaught(t) ==
    /\ runs[t].pc = "matcher_loop"
    /\ runs[t].idx < Len(runs[t].sess)
    /\ LET st == runs[t]
           total_items == Len(st.sess)
           bom_item == st.sess[st.idx + 1]
       IN  /\ boms' = update_bom_progress(boms, TaskBom(t), "matching", MatchProgress(st.idx, total_items))
           /\ \E sem_ok \in BOOLEAN :
                /\ (~sem_ok) => SemanticTried(bom_item, openai_api_key)
                /\ LET matches == FindMatches(bom_item, openai_api_key, sem_ok)
                       updated == ApplyMatch(bom_item, matches)
                   IN  IF ~sem_ok
                         THEN runs' = [runs EXCEPT ![t] = [Abort(st, "embedding failed")
                                                             EXCEPT !.semantic_error = TRUE]]
                         ELSE runs' = [runs EXCEPT
                                ![t].sess[st.idx + 1] = updated,
                                ![t].idx = st.idx + 1,
                                ![t].best_match = SeqRange(matches, 0, 1),
                                ![t].semantic_error = FALSE,
                                ![t].review_items = @ \o ReviewEntries(updated, matches),
                                ![t].matched_items = IF matches # <<>> THEN Append(@, updated.id) ELSE @,
                                ![t].unmatched_items = IF matches = <<>> THEN Append(@, updated.id) ELSE @]
    /\ UNCHANGED <<tasks, items, next_item_id, approvals, pos, openai_api_key, inflight, grouping, lookup, cache, admitted>>

\* matcher_node, lines 185-269: one iteration of the loop over the items
MatcherItem(t) ==
    /\ runs[t].pc = "matcher_loop"
    /\ runs[t].idx < Len(runs[t].sess)
    /\ LET st == runs[t]
           total_items == Len(st.sess)
           bom_item == st.sess[st.idx + 1]
       IN  /\ boms' = update_bom_progress(boms, TaskBom(t), "matching", MatchProgress(st.idx, total_items))
           /\ \E sem_ok \in BOOLEAN :
                /\ (~sem_ok) => SemanticTried(bom_item, openai_api_key)
                /\ LET matches == FindMatches(bom_item, openai_api_key, sem_ok)
                       updated == ApplyMatch(bom_item, matches)
                   IN  runs' = [runs EXCEPT
                          ![t].sess[st.idx + 1] = updated,
                          ![t].idx = st.idx + 1,
                          ![t].best_match = SeqRange(matches, 0, 1),
                          ![t].semantic_error = ~sem_ok,
                          ![t].review_items = @ \o ReviewEntries(updated, matches),
                          ![t].matched_items = IF matches # <<>> THEN Append(@, updated.id) ELSE @,
                          ![t].unmatched_items = IF matches = <<>> THEN Append(@, updated.id) ELSE @]
    /\ UNCHANGED <<tasks, items, next_item_id, approvals, pos, openai_api_key, inflight, grouping, lookup, cache, admitted>>

\* matcher_node, lines 271-277: the totals, and the commit of the session
MatcherCommit(t) ==
    /\ runs[t].pc = "matcher_loop"
    /\ runs[t].idx = Len(runs[t].sess)
    /\ LET st == runs[t]
           b == TaskBom(t)
       IN  IF BomExists(b) /\ ItemIds(st.sess) \subseteq ItemIds(items)
             THEN /\ items' = WriteRows(items, st.sess)
                  /\ boms' = [boms EXCEPT ![b].matched_items = Len(st.matched_items)]
                  /\ runs' = [runs EXCEPT ![t].sess = <<>>, ![t].idx = 0, ![t].best_match = <<>>,
                                          ![t].semantic_error = FALSE,
                                          ![t].pc = "matcher_task60"]
             ELSE \* the UPDATE finds a row gone: the commit raises
                  /\ runs' = [runs EXCEPT ![t] = Abort(st, "StaleDataError")]
                  /\ UNCHANGED <<boms, items>>
    /\ UNCHANGED <<tasks, next_item_id, approvals, pos, openai_api_key, inflight, grouping, lookup, cache, admitted>>

MatcherTask60(t) == TaskProgressStep(t, "matcher_task60", Whole(60), "matcher_bom60")

\* matcher_node, lines 280-294, and the routing by should_review
MatcherBom60(t) ==
    /\ runs[t].pc = "matcher_bom60"
    /\ boms' = update_bom_progress(boms, TaskBom(t), "matching", Whole(60))
    /\ runs' = Goto(t, "matcher", [runs[t] EXCEPT !.needs_human_review = Len(runs[t].review_items) > 0])
    /\ UNCHANGED <<tasks, items, next_item_id, approvals, pos, openai_api_key, inflight, grouping, lookup, cache, admitted>>

\* ApprovalRequest(...) of human_review_node for one review item
NewApproval(t, item) ==
    [task_id |-> t, entity_type |-> "supplier_match", entity_id |-> item.bom_item_id,
     status |-> "pending", details |-> item]

\* human_review_node
HumanReview(t) ==
    /\ runs[t].pc = "human_review"
    /\ LET b == TaskBom(t)
           st == runs[t]
       IN  /\ runs' = Goto(t, "human_review", st)
           /\ IF ~BomExists(b)
                THEN UNCHANGED <<approvals, tasks, boms>>
                ELSE /\ approvals' = approvals \o
                          [i \in 1..Len(st.review_items) |-> NewApproval(t, st.review_items[i])]
                     /\ tasks' = [tasks EXCEPT ![t].status = "paused"]
                     /\ boms' = [boms EXCEPT ![b].processing_status = "awaiting_review"]
    /\ UNCHANGED <<items, next_item_id, pos, openai_api_key, inflight, grouping, lookup, cache, admitted>>

PoTask70(t) == TaskProgressStep(t, "po_task70", Whole(70), "po_bom70")
PoBom70(t) == BomProgressStep(t, "po_bom70", "generating_pos", Whole(70), "po_load")

\* po_generator_node, lines 344-384: read the eligible items and group them
PoLoad(t) ==
    /\ runs[t].pc = "po_load"
    /\ LET b == TaskBom(t)
           st == runs[t]
           bom_items == EligibleItems(items, b)
       IN  IF ~BomExists(b)
             THEN runs' = Goto(t, "po_generator", [st EXCEPT !.error = "BOM not found"])
           ELSE IF bom_items = <<>>
             THEN runs' = Goto(t, "po_generator", [st EXCEPT !.draft_pos = <<>>])
           ELSE runs' = [runs EXCEPT ![t].groups = group_items_by_supplier_impl(ItemsDict(bom_items)),
                                     ![t].idx = 0, ![t].confirm = {}, ![t].pc = "po_create"]
    /\ UNCHANGED <<boms, tasks, items, next_item_id, approvals, pos, openai_api_key, inflight, grouping, lookup, cache, admitted>>

\* po_generator_node, lines 387-404: one supplier group.  create_po_draft_impl
\* commits, which also flushes the statuses set for the previous group.
PoCreate(t) ==
    /\ runs[t].pc = "po_create"
    /\ runs[t].idx < Len(runs[t].groups)
    /\ LET st == runs[t]
           g == st.groups[st.idx + 1]
       IN  IF ~SupplierExists(g.supplier_id)
             THEN /\ runs' = [runs EXCEPT ![t].idx = st.idx + 1]
                  /\ UNCHANGED <<pos, items>>
           ELSE IF ~(st.confirm \subseteq ItemIds(items))
             THEN /\ runs' = [runs EXCEPT ![t] = Abort(st, "StaleDataError")]
                  /\ UNCHANGED <<pos, items>>
           ELSE /\ pos' = Append(pos, create_po_draft_impl(pos, g.supplier_id, g.items, TaskBom(t)))
                /\ items' = ConfirmRows(items, st.confirm)
                /\ runs' = [runs EXCEPT
                     ![t].idx = st.idx + 1,
                     ![t].draft_pos = Append(@, Len(pos) + 1),
                     ![t].confirm = {g.items[i].bom_item_id : i \in 1..Len(g.items)}
                                      \cap ItemIds(items)]
    /\ UNCHANGED <<boms, tasks, next_item_id, approvals, openai_api_key, inflight, grouping, lookup, cache, admitted>>

\* create_po_draft_impl, lines 51-62, when other processes write purchase
\* orders too: the supplier is looked up and the PO number is taken from the
\* count of the purchase orders committed so far
PoCount(t) ==
    /\ runs[t].pc = "po_create"
    /\ runs[t].idx < Len(runs[t].groups)
    /\ runs[t].po_number = Null
    /\ LET st == runs[t]
           g == st.groups[st.idx + 1]
       IN  IF ~SupplierExists(g.supplier_id)
             THEN runs' = [runs EXCEPT ![t].idx = st.idx + 1]
             ELSE runs' = [runs EXCEPT ![t].po_number = generate_po_number_impl(pos)]
    /\ UNCHANGED <<boms, tasks, items, next_item_id, approvals, pos, openai_api_key, inflight, grouping, lookup, cache, admitted>>

\* create_po_draft_impl, lines 77-107: the INSERT and the commit; po_number is
\* unique, so the INSERT of a number committed meanwhile raises
PoInsert(t) ==
    /\ runs[t].pc = "po_create"
    /\ runs[t].idx < Len(runs[t].groups)
    /\ runs[t].po_number # Null
    /\ LET st == runs[t]
           g == st.groups[st.idx + 1]
       IN  IF \E p \in 1..Len(pos) : pos[p].po_number = st.po_number
             THEN /\ runs' = [runs EXCEPT ![t] = Abort(st, "IntegrityError")]
                  /\ UNCHANGED <<pos, items>>
           ELSE IF ~(st.confirm \subseteq ItemIds(items))
             THEN /\ runs' = [runs EXCEPT ![t] = Abort(st, "StaleDataError")]
                  /\ UNCHANGED <<pos, items>>
           ELSE /\ pos' = Append(pos, [create_po_draft_impl(pos, g.supplier_id, g.items, TaskBom(t))
                                         EXCEPT !.po_number = st.po_number])
                /\ items' = ConfirmRows(items, st.confirm)
                /\ runs' = [runs EXCEPT
                     ![t].idx = st.idx + 1,
                     ![t].po_number = Null,
                     ![t].draft_pos = Append(@, Len(pos) + 1),
                     ![t].confirm = {g.items[i].bom_item_id : i \in 1..Len(g.items)}
                                      \cap ItemIds(items)]
    /\ UNCHANGED <<boms, tasks, next_item_id, approvals, openai_api_key, inflight, grouping, lookup, cache, admitted>>

\* po_generator_node: the commit that closes the session
PoCommit(t) ==
    /\ runs[t].pc = "po_create"
    /\ runs[t].idx = Len(runs[t].groups)
    /\ LET st == runs[t]
       IN  IF st.confirm \subseteq ItemIds(items)
             THEN /\ items' = ConfirmRows(items, st.confirm)
                  /\ runs' = [runs EXCEPT ![t].groups = <<>>, ![t].idx = 0, ![t].confirm = {},
                                          ![t].pc = "po_task90"]
             ELSE /\ runs' = [runs EXCEPT ![t] = Abort(st, "StaleDataError")]
                  /\ UNCHANGED items
    /\ UNCHANGED <<boms, tasks, next_item_id, approvals, pos, openai_api_key, inflight, grouping, lookup, cache, admitted>>

PoTask90(t) == TaskProgressStep(t, "po_task90", Whole(90), "po_bom90")

PoBom90(t) ==
    /\ runs[t].pc = "po_bom90"
    /\ boms' = update_bom_progress(boms, TaskBom(t), "generating_pos", Whole(90))
    /\ runs' = Goto(t, "po_generator", runs[t])
    /\ UNCHANGED <<tasks, items, next_item_id, approvals, pos, openai_api_key, inflight, grouping, lookup, cache, admitted>>

\* completion_node
Completion(t) ==
    /\ runs[t].pc = "completion"
    /\ LET b == TaskBom(t)
       IN  /\ tasks' = [tasks EXCEPT ![t].status = "completed", ![t].progress = Whole(100)]
           /\ boms' = IF BomExists(b)
                        THEN [boms EXCEPT ![b].processing_status = "completed",
                                          ![b].processing_progress = Whole(100)]
                        ELSE boms
           /\ runs' = Goto(t, "completion", [runs[t] EXCEPT !.completed = TRUE])
    /\ UNCHANGED <<items, next_item_id, approvals, pos, openai_api_key, inflight, grouping, lookup, cache, admitted>>

\* a stage raises (a store call or a tool fails): control leaves the graph
StageRaises(t) ==
    /\ runs[t].pc \in RaisePcs
    /\ runs' = [runs EXCEPT ![t] = Abort(runs[t], "StoreError")]
    /\ UNCHANGED <<boms, tasks, items, next_item_id, approvals, pos, openai_api_key, inflight, grouping, lookup, cache, admitted>>

\* str(e) of the exception a failing catalog query raises
CatalogSearchError == "catalog search failed"

\* matcher_node, line 194: the catalog search of the next item raises (the
\* store is unavailable); the call is not inside a try block
CatalogSearchRaises(t) ==
    /\ runs[t].pc = "matcher_loop"
    /\ runs[t].idx < Len(runs[t].sess)
    /\ runs[t].sess[runs[t].idx + 1].part_number_raw # NoPN
    /\ runs' = [runs EXCEPT ![t] = Abort(runs[t], CatalogSearchError)]
    /\ UNCHANGED <<boms, tasks, items, next_item_id, approvals, pos, openai_api_key, inflight, grouping, lookup, cache, admitted>>

\* process_bom_workflow, lines 565-578
Handler(t) ==
    /\ runs[t].pc = "handler"
    /\ tasks' = FailTask(tasks, t, runs[t].exc)
    /\ boms' = FailBom(boms, TaskBom(t), runs[t].exc)
    /\ runs' = [runs EXCEPT ![t].pc = "ended"]
    /\ UNCHANGED <<items, next_item_id, approvals, pos, openai_api_key, inflight, grouping, lookup, cache, admitted>>

\* ------------------------------------------------------------ the API
BusyStatuses == {"parsing", "matching", "optimizing", "generating_pos"}

\* POST /api/boms/{bom_id}/process
process_bom(b) ==
    /\ BomExists(b)
    /\ boms[b].processing_status \notin BusyStatuses
    /\ Len(tasks) < MaxTasks
    /\ boms' = [boms EXCEPT ![b].processing_status = "pending",
                            ![b].processing_progress = Whole(0),
                            ![b].processing_error = ""]
    /\ tasks' = Append(tasks, NewTask(b))
    /\ runs' = Append(runs, NewRun)
    /\ UNCHANGED <<items, next_item_id, approvals, pos, openai_api_key, inflight, grouping, lookup, cache, admitted>>

\* the first process request for a BOM uploaded without auto_process
FirstProcess(b) ==
    /\ tasks = <<>>
    /\ process_bom(b)

\* DELETE /api/boms/{bom_id}: the BOM goes with its items (cascade); its
\* purchase orders stay and lose the reference to it, and the purchase order
\* lines lose the reference to the deleted items
delete_bom(b) ==
    /\ BomExists(b)
    /\ boms' = [x \in (DOMAIN boms) \ {b} |-> boms[x]]
    /\ items' = FilterSeq(items, {items[i] : i \in {j \in 1..Len(items) : items[j].bom_id # b}})
    /\ pos' = ClearItemRefs([p \in 1..Len(pos) |->
                               IF pos[p].bom_id = b THEN [pos[p] EXCEPT !.bom_id = Null] ELSE pos[p]],
                            ItemIds(ItemsOfBom(items, b)))
    /\ UNCHANGED <<tasks, next_item_id, approvals, runs, openai_api_key, inflight, grouping, lookup, cache, admitted>>

\* POST /api/agents/tasks/{task_id}/cancel
cancel_task(t) ==
    /\ tasks[t].status \in {"pending", "running"}
    /\ tasks' = [tasks EXCEPT ![t].status = "cancelled", ![t].error_message = "Cancelled by user"]
    /\ UNCHANGED <<boms, items, next_item_id, approvals, pos, runs, openai_api_key, inflight, grouping, lookup, cache, admitted>>

\* an approval that ignores the reviewer's selection
ApproveItem_unselected(bom_item, selected_option) ==
    [bom_item EXCEPT !.status = "confirmed", !.match_method = "manual"]

\* the item after an approved supplier-match review
ApproveItem(bom_item, selected_option) ==
    LET chosen == IF selected_option # Null /\ bom_item.alternative_matches # <<>>
                    THEN LET selected == bom_item.alternative_matches[selected_option + 1]
                         IN  [bom_item EXCEPT
                                !.matched_supplier_id = selected.supplier_id,
                                !.matched_supplier_part_id = selected.supplier_part_id,
                                !.unit_cost = selected.unit_price,
                                !.match_confidence = RoundCent(selected.confidence)]
                    ELSE bom_item
    IN  [chosen EXCEPT !.status = "confirmed", !.match_method = "manual"]

\* process_approval, lines 185-206: what a decision on a pending request writes
DecisionWrites(a, approved, selected_option) ==
    /\ approvals' = [approvals EXCEPT ![a].status = IF approved THEN "approved" ELSE "rejected"]
    /\ IF /\ approvals[a].entity_type = "supplier_match"
          /\ approvals[a].entity_id \in ItemIds(items)
          /\ approved
         THEN items' = [i \in 1..Len(items) |->
                          IF items[i].id = approvals[a].entity_id
                            THEN ApproveItem(items[i], selected_option) ELSE items[i]]
         ELSE UNCHANGED items

\* POST /api/agents/approvals/{approval_id}, handled without another request in between
process_approval(a, approved, selected_option) ==
    /\ approvals[a].status = "pending"
    /\ DecisionWrites(a, approved, selected_option)
    /\ UNCHANGED <<boms, tasks, next_item_id, pos, runs, openai_api_key, inflight, grouping, lookup, cache, admitted>>

\* the decisions a reviewer can submit for request a
Decide(a) ==
    \E approved \in BOOLEAN, selected_option \in {Null} \cup (0 .. 3) :
        /\ selected_option # Null =>
              /\ approved
              /\ approvals[a].entity_id \in ItemIds(items)
              /\ selected_option < Len(ItemById(items, approvals[a].entity_id).alternative_matches)
        /\ process_approval(a, approved, selected_option)

\* the selections a reviewer can submit with a decision on request a
Selections(a, approved) ==
    {Null} \cup
      (IF approved /\ approvals[a].entity_type = "supplier_match"
            /\ approvals[a].entity_id \in ItemIds(items)
         THEN 0 .. (Len(ItemById(items, approvals[a].entity_id).alternative_matches) - 1)
         ELSE {})

\* process_approval up to its first await: the request is read and found
\* pending (a request that is not pending gets a 400 and nothing is written)
ApprovalRead(a) ==
    /\ Cardinality(inflight) < MaxInflight
    /\ approvals[a].status = "pending"
    /\ \E approved \in BOOLEAN :
         \E selected_option \in Selections(a, approved) :
            LET r == [approval_id |-> a, approved |-> approved, selected_option |-> selected_option]
            IN  /\ r \notin inflight
                /\ inflight' = inflight \cup {r}
    /\ UNCHANGED <<boms, tasks, items, next_item_id, approvals, pos, runs, openai_api_key,
                   grouping, lookup, cache, admitted>>

\* process_approval from the item query to the commit get_db issues on return
ApprovalCommit(r) ==
    /\ r \in inflight
    /\ DecisionWrites(r.approval_id, r.approved, r.selected_option)
    /\ inflight' = inflight \ {r}
    /\ UNCHANGED <<boms, tasks, next_item_id, pos, runs, openai_api_key, grouping, lookup, cache, admitted>>

\* ------------------------------------------------ purchase order requests
PoApproval(p) ==
    [task_id |-> Null, entity_type |-> "purchase_order", entity_id |-> p, status |-> "pending",
     details |-> [po_number |-> pos[p].po_number, total |-> pos[p].total,
                  item_count |-> Len(pos[p].items)]]

\* POST /api/purchase-orders/{po_id}/submit
submit_for_approval(p) ==
    /\ pos[p].status = "draft"
    /\ IF pos[p].requires_approval
         THEN /\ Len(approvals) < MaxApprovals
              /\ pos' = [pos EXCEPT ![p].status = "pending_approval"]
              /\ approvals' = Append(approvals, PoApproval(p))
         ELSE /\ pos' = [pos EXCEPT ![p].status = "approved"]
              /\ UNCHANGED approvals
    /\ UNCHANGED <<boms, tasks, items, next_item_id, runs, openai_api_key, inflight, grouping, lookup, cache, admitted>>

\* the pending request approve_purchase_order looks up for purchase order p
PendingPoApprovals(p) ==
    {a \in 1..Len(approvals) :
        /\ approvals[a].entity_type = "purchase_order"
        /\ approvals[a].entity_id = p
        /\ approvals[a].status = "pending"}

\* POST /api/purchase-orders/{po_id}/approve
approve_purchase_order(p, approved) ==
    /\ pos[p].status = "pending_approval"
    /\ Cardinality(PendingPoApprovals(p)) <= 1
    /\ pos' = [pos EXCEPT ![p].status = IF approved THEN "approved" ELSE "draft"]
    /\ approvals' = [a \in 1..Len(approvals) |->
                       IF a \in PendingPoApprovals(p)
                         THEN [approvals[a] EXCEPT !.status = IF approved THEN "approved" ELSE "rejected"]
                         ELSE approvals[a]]
    /\ UNCHANGED <<boms, tasks, items, next_item_id, runs, openai_api_key, inflight, grouping, lookup, cache, admitted>>

\* POST /api/purchase-orders/{po_id}/send
send_purchase_order(p) ==
    /\ pos[p].status = "approved"
    /\ pos' = [pos EXCEPT ![p].status = "sent"]
    /\ LET linked == {pos[p].items[k].bom_item_id : k \in 1..Len(pos[p].items)} \ {Null}
       IN  items' = [i \in 1..Len(items) |->
                       IF items[i].id \in linked THEN [items[i] EXCEPT !.status = "ordered"]
                       ELSE items[i]]
    /\ UNCHANGED <<boms, tasks, next_item_id, approvals, runs, openai_api_key, inflight, grouping, lookup, cache, admitted>>

\* POST /api/purchase-orders/{po_id}/acknowledge
acknowledge_purchase_order_anystatus(p) ==
    /\ p \in PoIds(pos)
    /\ pos' = [pos EXCEPT ![p].status = "acknowledged"]
    /\ UNCHANGED <<boms, tasks, items, next_item_id, approvals, runs, openai_api_key, inflight, grouping, lookup, cache, admitted>>

acknowledge_purchase_order(p) ==
    /\ pos[p].status = "sent"
    /\ pos' = [pos EXCEPT ![p].status = "acknowledged"]
    /\ UNCHANGED <<boms, tasks, items, next_item_id, approvals, runs, openai_api_key, inflight, grouping, lookup, cache, admitted>>

\* the quantities a receipt can report for a line
ReceiptQuantities == {1, 2}

\* POST /api/purchase-orders/{po_id}/receive: the receipt names line 1 of the order
record_receipt(p) ==
    /\ pos[p].status \in {"sent", "acknowledged", "shipped"}
    /\ \E q \in ReceiptQuantities :
         LET lines == [k \in 1..Len(pos[p].items) |->
                         IF k = 1 THEN [pos[p].items[k] EXCEPT !.received_quantity = @ + q]
                         ELSE pos[p].items[k]]
             all_received == \A k \in 1..Len(lines) :
                                lines[k].received_quantity >= lines[k].quantity
         IN  pos' = [pos EXCEPT ![p].items = lines,
                                ![p].status = IF all_received THEN "received" ELSE @]
    /\ UNCHANGED <<boms, tasks, items, next_item_id, approvals, runs, openai_api_key, inflight, grouping, lookup, cache, admitted>>

\* DELETE /api/purchase-orders/{po_id}
delete_purchase_order(p) ==
    /\ pos[p].status = "draft"
    /\ pos' = [pos EXCEPT ![p] = DeletedPo]
    /\ UNCHANGED <<boms, tasks, items, next_item_id, approvals, runs, openai_api_key, inflight, grouping, lookup, cache, admitted>>

\* purchase_orders.generate_po_number: the same count as the tool's
generate_po_number(po_rows) == Cardinality(PoIds(po_rows)) + 1

\* the orders a client can post: one line of two units, at a price that
\* keeps the total under the approval threshold or at one that does not
OrderSuppliers == {1}
OrderQuantities == {2}
OrderPrices == {10 * PriceScale, 6000 * PriceScale}

\* the purchase order create_purchase_order adds, with its line
NewPurchaseOrder(po_number, supplier_id, quantity, unit_price) ==
    LET po_items == <<[line_number |-> 1, bom_item_id |-> Null, quantity |-> quantity,
                       unit_price |-> unit_price, extended_price |-> quantity * unit_price,
                       received_quantity |-> 0]>>
        subtotal == SumExtended(po_items)
    IN  [po_number |-> po_number, supplier_id |-> supplier_id, bom_id |-> Null,
         is_auto_generated |-> FALSE, status |-> "draft", items |-> po_items,
         subtotal |-> StoreCents(subtotal), total |-> StoreCents(subtotal),
         requires_approval |-> subtotal >= PoApprovalThreshold * PriceScale]

\* the create requests being handled
Creating == {r \in inflight : r.kind = "create"}

\* create_purchase_order, lines 93-106, of the request connection c carries:
\* the supplier is found and the PO number is taken from the count
CreateRead(c) ==
    /\ Len(pos) + Cardinality(Creating) < MaxPos
    /\ \A r \in inflight : r.client # c
    /\ \E sid \in OrderSuppliers, quantity \in OrderQuantities, unit_price \in OrderPrices :
         /\ SupplierExists(sid)
         /\ inflight' = inflight \cup
               {[kind |-> "create", client |-> c, po_number |-> generate_po_number(pos),
                 supplier_id |-> sid, quantity |-> quantity, unit_price |-> unit_price]}
    /\ UNCHANGED <<boms, tasks, items, next_item_id, approvals, pos, runs, openai_api_key, grouping, lookup, cache, admitted>>

\* create_purchase_order, lines 114-141: the INSERT at db.flush() and the
\* commit; po_number is unique, so the INSERT of a number that a purchase
\* order carries raises IntegrityError and the request fails with nothing written
CreateInsert(r) ==
    /\ r \in Creating
    /\ inflight' = inflight \ {r}
    /\ IF \E p \in PoIds(pos) : pos[p].po_number = r.po_number
         THEN UNCHANGED pos
         ELSE pos' = Append(pos, NewPurchaseOrder(r.po_number, r.supplier_id, r.quantity, r.unit_price))
    /\ UNCHANGED <<boms, tasks, items, next_item_id, approvals, runs, openai_api_key, grouping, lookup, cache, admitted>>

\* ------------------------------------------------------- the rate limiter
\* RedisCache.get, incr and expire on the key of one client, with the cache connected
CacheGet(c) == IF c.exists THEN c.value ELSE Null
CacheIncr(c) == IF c.exists THEN [c EXCEPT !.value = @ + 1]
                ELSE [value |-> 1, ttl |-> FALSE, exists |-> TRUE]
CacheExpire(c) == IF c.exists THEN [c EXCEPT !.ttl = TRUE] ELSE c


\* dispatch, lines 81-110, of the request connection c carries: a health
\* check goes through untouched, and a request that reads a count at the
\* limit is answered 429; any other goes on to the increment
DispatchGet(c) ==
    /\ \A r \in inflight : r.client # c
    /\ \E path \in {"/api/health", "/api/boms"} :
         LET current == CacheGet(cache)
         IN  IF path = "/api/health" \/ (current # Null /\ current >= RateLimitRequests)
               THEN UNCHANGED inflight
               ELSE inflight' = inflight \cup
                      {[kind |-> "dispatch", client |-> c, pc |-> "incr", current |-> current]}
    /\ UNCHANGED <<boms, tasks, items, next_item_id, approvals, pos, runs, openai_api_key, grouping, lookup, cache, admitted>>

\* dispatch, lines 112-114: the counter is incremented and the request will
\* be passed on; it sets the expiry next only if it had read no count
DispatchIncr(r) ==
    /\ r \in inflight
    /\ r.kind = "dispatch"
    /\ r.pc = "incr"
    /\ cache' = CacheIncr(cache)
    /\ admitted' = IF cache.exists THEN admitted + 1 ELSE 1
    /\ inflight' = IF r.current = Null
                     THEN (inflight \ {r}) \cup {[r EXCEPT !.pc = "expire"]}
                     ELSE inflight \ {r}
    /\ UNCHANGED <<boms, tasks, items, next_item_id, approvals, pos, runs, openai_api_key, grouping, lookup>>

\* dispatch, line 115, and the call of the next handler
DispatchExpire(r) ==
    /\ r \in inflight
    /\ r.kind = "dispatch"
    /\ r.pc = "expire"
    /\ cache' = CacheExpire(cache)
    /\ inflight' = inflight \ {r}
    /\ UNCHANGED <<boms, tasks, items, next_item_id, approvals, pos, runs, openai_api_key, grouping, lookup, admitted>>

\* Redis removes the key when its TTL has run out: the window ends
KeyExpires ==
    /\ cache.exists
    /\ cache.ttl
    /\ cache' = NoKey
    /\ admitted' = 0
    /\ UNCHANGED <<boms, tasks, items, next_item_id, approvals, pos, runs, openai_api_key, inflight, grouping, lookup>>

\* --------------------------------------------------------- specifications
\* one run of a BOM, with the requests that can arrive while it runs
Next ==
    \/ \E b \in BomIds : FirstProcess(b)
    \/ \E t \in TaskIds : StartRun(t)
    \/ \E t \in TaskIds : ParserTask10(t)
    \/ \E t \in TaskIds : ParserBom10(t)
    \/ \E t \in TaskIds : ParserParse(t)
    \/ \E t \in TaskIds : ParserTask25(t)
    \/ \E t \in TaskIds : ParserBom25(t)
    \/ \E t \in TaskIds : MatcherTask30(t)
    \/ \E t \in TaskIds : MatcherBom30(t)
    \/ \E t \in TaskIds : MatcherLoad(t)
    \/ \E t \in TaskIds : MatcherItem(t)
    \/ \E t \in TaskIds : MatcherCommit(t)
    \/ \E t \in TaskIds : MatcherTask60(t)
    \/ \E t \in TaskIds : MatcherBom60(t)
    \/ \E t \in TaskIds : HumanReview(t)
    \/ \E t \in TaskIds : PoTask70(t)
    \/ \E t \in TaskIds : PoBom70(t)
    \/ \E t \in TaskIds : PoLoad(t)
    \/ \E t \in TaskIds : PoCreate(t)
    \/ \E t \in TaskIds : PoCommit(t)
    \/ \E t \in TaskIds : PoTask90(t)
    \/ \E t \in TaskIds : PoBom90(t)
    \/ \E t \in TaskIds : Completion(t)
    \/ \E t \in TaskIds : StageRaises(t)
    \/ \E t \in TaskIds : CatalogSearchRaises(t)
    \/ \E t \in TaskIds : Handler(t)
    \/ \E t \in TaskIds : cancel_task(t)
    \/ \E a \in 1..Len(approvals) : Decide(a)

Spec == Init /\ [][Next]_vars

\* ------------------------------------------- the grouping used directly
\* a database without rows, for uses of a tool outside a run
EmptyDb ==
    /\ boms = <<>>
    /\ tasks = <<>>
    /\ runs = <<>>
    /\ items = <<>>
    /\ next_item_id = 1
    /\ approvals = <<>>
    /\ pos = <<>>
    /\ openai_api_key = FALSE
    /\ inflight = {}

\* the supplier ids of the items handed to the grouping; Null: not resolved
GroupSuppliers == {Null, 5, 7, 9}

\* item dicts as po_generator_node builds them, ids 1, 2, ... in list order
GroupInputs ==
    UNION { { [k \in 1..n |-> [id |-> k, matched_supplier_id |-> f[k],
                               matched_supplier_part_id |-> Null,
                               quantity |-> 2, unit_cost |-> 0]] :
                f \in [1..n -> GroupSuppliers] } : n \in 0..MaxGroupInput }

InitGroup ==
    /\ EmptyDb
    /\ lookup = <<>>
    /\ cache = NoKey
    /\ admitted = 0
    /\ \E input \in GroupInputs : grouping = [input |-> input, results |-> <<>>]

\* a caller that consumes the list it passes
GroupCall_consuming ==
    /\ Len(grouping.results) < 2
    /\ grouping' = [grouping EXCEPT !.results = Append(@, group_items_by_supplier_impl(grouping.input)),
                                    !.input = IF @ = <<>> THEN @ ELSE Tail(@)]
    /\ UNCHANGED <<boms, tasks, items, next_item_id, approvals, pos, runs, openai_api_key,
                   inflight, lookup, cache, admitted>>

\* grouped = group_items_by_supplier_impl(items_dict), called on the same list again
GroupCall ==
    /\ Len(grouping.results) < 2
    /\ grouping' = [grouping EXCEPT !.results = Append(@, group_items_by_supplier_impl(grouping.input))]
    /\ UNCHANGED <<boms, tasks, items, next_item_id, approvals, pos, runs, openai_api_key,
                   inflight, lookup, cache, admitted>>

NextGroup == GroupCall

SpecGroup == InitGroup /\ [][NextGroup]_vars

\* --------------------------------------- the catalog search used directly
PNChars == {"a", "b", "A", "B", "1", "2", "-", " "}

\* the raw part numbers looked up: every string of 1 to MaxPNLen characters
PartNumberInputs == UNION { [1..n -> PNChars] : n \in 1..MaxPNLen }

InitSearch ==
    /\ EmptyDb
    /\ grouping = <<>>
    /\ \E pn \in PartNumberInputs : lookup = [part_number |-> pn, done |-> FALSE, matches |-> <<>>]
    /\ cache = NoKey
    /\ admitted = 0

\* result = search_supplier_catalog_impl(part_number, organization_id, db)
Lookup ==
    /\ ~lookup.done
    /\ lookup' = [lookup EXCEPT !.done = TRUE,
                                !.matches = search_supplier_catalog_impl(lookup.part_number)]
    /\ UNCHANGED <<boms, tasks, items, next_item_id, approvals, pos, runs, openai_api_key,
                   inflight, grouping, cache, admitted>>

NextSearch == Lookup

SpecSearch == InitSearch /\ [][NextSearch]_vars

\* one run of a BOM of at most MaxOrderItems rows, with review decisions
\* handled concurrently and the purchase orders taken through to sending
NextOrders ==
    \/ \E b \in BomIds : FirstProcess(b)
    \/ \E t \in TaskIds : StartRun(t)
    \/ \E t \in TaskIds : ParserTask10(t)
    \/ \E t \in TaskIds : ParserBom10(t)
    \/ \E t \in TaskIds : ParserParse(t)
    \/ \E t \in TaskIds : ParserTask25(t)
    \/ \E t \in TaskIds : ParserBom25(t)
    \/ \E t \in TaskIds : MatcherTask30(t)
    \/ \E t \in TaskIds : MatcherBom30(t)
    \/ \E t \in TaskIds : MatcherLoad(t)
    \/ \E t \in TaskIds : MatcherItem(t)
    \/ \E t \in TaskIds : MatcherCommit(t)
    \/ \E t \in TaskIds : MatcherTask60(t)
    \/ \E t \in TaskIds : MatcherBom60(t)
    \/ \E t \in TaskIds : HumanReview(t)
    \/ \E t \in TaskIds : PoTask70(t)
    \/ \E t \in TaskIds : PoBom70(t)
    \/ \E t \in TaskIds : PoLoad(t)
    \/ \E t \in TaskIds : PoCreate(t)
    \/ \E t \in TaskIds : PoCommit(t)
    \/ \E t \in TaskIds : PoTask90(t)
    \/ \E t \in TaskIds : PoBom90(t)
    \/ \E t \in TaskIds : Completion(t)
    \/ \E a \in 1..Len(approvals) : ApprovalRead(a)
    \/ \E r \in inflight : ApprovalCommit(r)
    \/ \E p \in 1..Len(pos) : submit_for_approval(p)
    \/ \E p \in 1..Len(pos), approved \in BOOLEAN : approve_purchase_order(p, approved)
    \/ \E p \in 1..Len(pos) : send_purchase_order(p)

InitOrders == Uploaded(MaxOrderItems)

SpecOrders == InitOrders /\ [][NextOrders]_vars

\* one run of a BOM of at most MaxOrderItems rows, with review decisions
\* handled concurrently and no purchase-order request
NextDecide ==
    \/ \E b \in BomIds : FirstProcess(b)
    \/ \E t \in TaskIds : StartRun(t)
    \/ \E t \in TaskIds : ParserTask10(t)
    \/ \E t \in TaskIds : ParserBom10(t)
    \/ \E t \in TaskIds : ParserParse(t)
    \/ \E t \in TaskIds : ParserTask25(t)
    \/ \E t \in TaskIds : ParserBom25(t)
    \/ \E t \in TaskIds : MatcherTask30(t)
    \/ \E t \in TaskIds : MatcherBom30(t)
    \/ \E t \in TaskIds : MatcherLoad(t)
    \/ \E t \in TaskIds : MatcherItem(t)
    \/ \E t \in TaskIds : MatcherCommit(t)
    \/ \E t \in TaskIds : MatcherTask60(t)
    \/ \E t \in TaskIds : MatcherBom60(t)
    \/ \E t \in TaskIds : HumanReview(t)
    \/ \E t \in TaskIds : PoTask70(t)
    \/ \E t \in TaskIds : PoBom70(t)
    \/ \E t \in TaskIds : PoLoad(t)
    \/ \E t \in TaskIds : PoCreate(t)
    \/ \E t \in TaskIds : PoCommit(t)
    \/ \E t \in TaskIds : PoTask90(t)
    \/ \E t \in TaskIds : PoBom90(t)
    \/ \E t \in TaskIds : Completion(t)
    \/ \E a \in 1..Len(approvals) : ApprovalRead(a)
    \/ \E r \in inflight : ApprovalCommit(r)

SpecDecide == InitOrders /\ [][NextDecide]_vars

\* the BOM under repeated process requests, each queueing another run
NextRetry ==
    \/ \E b \in BomIds : process_bom(b)
    \/ \E t \in TaskIds : StartRun(t)
    \/ \E t \in TaskIds : ParserTask10(t)
    \/ \E t \in TaskIds : ParserBom10(t)
    \/ \E t \in TaskIds : ParserParse(t)
    \/ \E t \in TaskIds : ParserTask25(t)
    \/ \E t \in TaskIds : ParserBom25(t)
    \/ \E t \in TaskIds : MatcherTask30(t)
    \/ \E t \in TaskIds : MatcherBom30(t)
    \/ \E t \in TaskIds : MatcherLoad(t)
    \/ \E t \in TaskIds : MatcherItem(t)
    \/ \E t \in TaskIds : MatcherCommit(t)
    \/ \E t \in TaskIds : MatcherTask60(t)
    \/ \E t \in TaskIds : MatcherBom60(t)
    \/ \E t \in TaskIds : HumanReview(t)
    \/ \E t \in TaskIds : PoTask70(t)
    \/ \E t \in TaskIds : PoBom70(t)
    \/ \E t \in TaskIds : PoLoad(t)
    \/ \E t \in TaskIds : PoCreate(t)
    \/ \E t \in TaskIds : PoCommit(t)
    \/ \E t \in TaskIds : PoTask90(t)
    \/ \E t \in TaskIds : PoBom90(t)
    \/ \E t \in TaskIds : Completion(t)
    \/ \E t \in TaskIds : StageRaises(t)
    \/ \E t \in TaskIds : Handler(t)

InitRetry == Uploaded(MaxRetryItems)

SpecRetry == InitRetry /\ [][NextRetry]_vars

\* a process request made when no run of the BOM is queued or executing
ProcessAgain(b) ==
    /\ \A t \in TaskIds : runs[t].pc = "ended"
    /\ process_bom(b)

\* the BOM processed again after each run has ended
NextAgain ==
    \/ \E b \in BomIds : ProcessAgain(b)
    \/ \E t \in TaskIds : StartRun(t)
    \/ \E t \in TaskIds : ParserTask10(t)
    \/ \E t \in TaskIds : ParserBom10(t)
    \/ \E t \in TaskIds : ParserParse(t)
    \/ \E t \in TaskIds : ParserTask25(t)
    \/ \E t \in TaskIds : ParserBom25(t)
    \/ \E t \in TaskIds : MatcherTask30(t)
    \/ \E t \in TaskIds : MatcherBom30(t)
    \/ \E t \in TaskIds : MatcherLoad(t)
    \/ \E t \in TaskIds : MatcherItem(t)
    \/ \E t \in TaskIds : MatcherCommit(t)
    \/ \E t \in TaskIds : MatcherTask60(t)
    \/ \E t \in TaskIds : MatcherBom60(t)
    \/ \E t \in TaskIds : HumanReview(t)
    \/ \E t \in TaskIds : PoTask70(t)
    \/ \E t \in TaskIds : PoBom70(t)
    \/ \E t \in TaskIds : PoLoad(t)
    \/ \E t \in TaskIds : PoCreate(t)
    \/ \E t \in TaskIds : PoCommit(t)
    \/ \E t \in TaskIds : PoTask90(t)
    \/ \E t \in TaskIds : PoBom90(t)
    \/ \E t \in TaskIds : Completion(t)
    \/ \E t \in TaskIds : StageRaises(t)
    \/ \E t \in TaskIds : Handler(t)

SpecAgain == InitRetry /\ [][NextAgain]_vars

\* two BOMs uploaded with auto_process, each with its queued run
InitPair ==
    /\ \E ft1, ft2 \in FileTypes, fc1, fc2 \in FileContents(MaxPairItems) :
         /\ ft1 = "pdf" => fc1 = [readable |-> FALSE, rows |-> <<>>]
         /\ ft2 = "pdf" => fc2 = [readable |-> FALSE, rows |-> <<>>]
         /\ boms = [b \in 1..2 |->
                      [source_file_type |-> IF b = 1 THEN ft1 ELSE ft2,
                       file |-> IF b = 1 THEN fc1 ELSE fc2,
                       processing_status |-> "pending",
                       processing_progress |-> Whole(0), processing_error |-> "",
                       total_items |-> 0, matched_items |-> 0]]
    /\ tasks = <<NewTask(1), NewTask(2)>>
    /\ runs = <<NewRun, NewRun>>
    /\ items = <<>>
    /\ next_item_id = 1
    /\ approvals = <<>>
    /\ pos = <<>>
    /\ openai_api_key \in BOOLEAN
    /\ inflight = {}
    /\ grouping = <<>>
    /\ lookup = <<>>
    /\ cache = NoKey
    /\ admitted = 0

\* the runs of two BOMs in worker processes of their own
NextPair ==
    \/ \E t \in TaskIds : StartRun(t)
    \/ \E t \in TaskIds : ParserTask10(t)
    \/ \E t \in TaskIds : ParserBom10(t)
    \/ \E t \in TaskIds : ParserParse(t)
    \/ \E t \in TaskIds : ParserTask25(t)
    \/ \E t \in TaskIds : ParserBom25(t)
    \/ \E t \in TaskIds : MatcherTask30(t)
    \/ \E t \in TaskIds : MatcherBom30(t)
    \/ \E t \in TaskIds : MatcherLoad(t)
    \/ \E t \in TaskIds : MatcherItem(t)
    \/ \E t \in TaskIds : MatcherCommit(t)
    \/ \E t \in TaskIds : MatcherTask60(t)
    \/ \E t \in TaskIds : MatcherBom60(t)
    \/ \E t \in TaskIds : HumanReview(t)
    \/ \E t \in TaskIds : PoTask70(t)
    \/ \E t \in TaskIds : PoBom70(t)
    \/ \E t \in TaskIds : PoLoad(t)
    \/ \E t \in TaskIds : PoCount(t)
    \/ \E t \in TaskIds : PoInsert(t)
    \/ \E t \in TaskIds : PoCommit(t)
    \/ \E t \in TaskIds : PoTask90(t)
    \/ \E t \in TaskIds : PoBom90(t)
    \/ \E t \in TaskIds : Completion(t)
    \/ \E t \in TaskIds : Handler(t)

SpecPair == InitPair /\ [][NextPair]_vars

\* one run of a BOM that can be deleted while the run is queued or executing
NextDelete ==
    \/ \E b \in BomIds : FirstProcess(b)
    \/ \E t \in TaskIds : StartRun(t)
    \/ \E t \in TaskIds : ParserTask10(t)
    \/ \E t \in TaskIds : ParserBom10(t)
    \/ \E t \in TaskIds : ParserParse(t)
    \/ \E t \in TaskIds : ParserTask25(t)
    \/ \E t \in TaskIds : ParserBom25(t)
    \/ \E t \in TaskIds : MatcherTask30(t)
    \/ \E t \in TaskIds : MatcherBom30(t)
    \/ \E t \in TaskIds : MatcherLoad(t)
    \/ \E t \in TaskIds : MatcherItem(t)
    \/ \E t \in TaskIds : MatcherCommit(t)
    \/ \E t \in TaskIds : MatcherTask60(t)
    \/ \E t \in TaskIds : MatcherBom60(t)
    \/ \E t \in TaskIds : HumanReview(t)
    \/ \E t \in TaskIds : PoTask70(t)
    \/ \E t \in TaskIds : PoBom70(t)
    \/ \E t \in TaskIds : PoLoad(t)
    \/ \E t \in TaskIds : PoCreate(t)
    \/ \E t \in TaskIds : PoCommit(t)
    \/ \E t \in TaskIds : PoTask90(t)
    \/ \E t \in TaskIds : PoBom90(t)
    \/ \E t \in TaskIds : Completion(t)
    \/ \E t \in TaskIds : Handler(t)
    \/ \E b \in BomIds : delete_bom(b)

SpecDelete == InitOrders /\ [][NextDelete]_vars

\* purchase orders created and drafts deleted through the API on an empty
\* store, by up to MaxInflight requests at a time
InitPo ==
    /\ EmptyDb
    /\ grouping = <<>>
    /\ lookup = <<>>
    /\ cache = NoKey
    /\ admitted = 0

NextPo ==
    \/ \E c \in 1..MaxInflight : CreateRead(c)
    \/ \E r \in inflight : CreateInsert(r)
    \/ \E p \in 1..Len(pos) : submit_for_approval(p)
    \/ \E p \in 1..Len(pos) : delete_purchase_order(p)

SpecPo == InitPo /\ [][NextPo]_vars

\* a store that holds up to MaxOrders draft purchase orders created one
\* after the other through the API, none of them submitted yet
InitLifecycle ==
    /\ boms = <<>>
    /\ tasks = <<>>
    /\ runs = <<>>
    /\ items = <<>>
    /\ next_item_id = 1
    /\ approvals = <<>>
    /\ \E n \in 1..MaxOrders, sid \in OrderSuppliers, quantity \in OrderQuantities :
         \E prices \in [1..n -> OrderPrices] :
            pos = [p \in 1..n |-> NewPurchaseOrder(p, sid, quantity, prices[p])]
    /\ openai_api_key = FALSE
    /\ inflight = {}
    /\ grouping = <<>>
    /\ lookup = <<>>
    /\ cache = NoKey
    /\ admitted = 0

\* the purchase-order endpoints, one request at a time
NextLifecycle ==
    \/ \E p \in 1..Len(pos) : submit_for_approval(p)
    \/ \E p \in 1..Len(pos), approved \in BOOLEAN : approve_purchase_order(p, approved)
    \/ \E p \in 1..Len(pos) : send_purchase_order(p)
    \/ \E p \in 1..Len(pos) : acknowledge_purchase_order(p)
    \/ \E p \in 1..Len(pos) : record_receipt(p)
    \/ \E p \in 1..Len(pos) : delete_purchase_order(p)

SpecLifecycle == InitLifecycle /\ [][NextLifecycle]_vars

\* the purchase-order endpoints together with the approvals endpoint
NextReview ==
    \/ NextLifecycle
    \/ \E a \in 1..Len(approvals) : Decide(a)

SpecReview == InitLifecycle /\ [][NextReview]_vars

\* a BOM of up to MaxItems rows processed again after each run has ended,
\* in runs in which no store call and no tool raises
NextReparse ==
    \/ \E b \in BomIds : ProcessAgain(b)
    \/ \E t \in TaskIds : StartRun(t)
    \/ \E t \in TaskIds : ParserTask10(t)
    \/ \E t \in TaskIds : ParserBom10(t)
    \/ \E t \in TaskIds : ParserParse(t)
    \/ \E t \in TaskIds : ParserTask25(t)
    \/ \E t \in TaskIds : ParserBom25(t)
    \/ \E t \in TaskIds : MatcherTask30(t)
    \/ \E t \in TaskIds : MatcherBom30(t)
    \/ \E t \in TaskIds : MatcherLoad(t)
    \/ \E t \in TaskIds : MatcherItem(t)
    \/ \E t \in TaskIds : MatcherCommit(t)
    \/ \E t \in TaskIds : MatcherTask60(t)
    \/ \E t \in TaskIds : MatcherBom60(t)
    \/ \E t \in TaskIds : HumanReview(t)
    \/ \E t \in TaskIds : PoTask70(t)
    \/ \E t \in TaskIds : PoBom70(t)
    \/ \E t \in TaskIds : PoLoad(t)
    \/ \E t \in TaskIds : PoCreate(t)
    \/ \E t \in TaskIds : PoCommit(t)
    \/ \E t \in TaskIds : PoTask90(t)
    \/ \E t \in TaskIds : PoBom90(t)
    \/ \E t \in TaskIds : Completion(t)

SpecReparse == Init /\ [][NextReparse]_vars

\* the requests of one client IP through the rate limiter, up to
\* MaxInflight of them at a time, with the cache connected and empty at first
NextLimit ==
    \/ \E c \in 1..MaxInflight : DispatchGet(c)
    \/ \E r \in inflight : DispatchIncr(r)
    \/ \E r \in inflight : DispatchExpire(r)
    \/ KeyExpires

SpecLimit == InitPo /\ [][NextLimit]_vars

\* ================================================================= claims
Stage(b) == boms[b].processing_status
Flagged(b) == {i \in 1..Len(items) : items[i].bom_id = b /\ items[i].status = "needs_review"}
ApprovalsOf(t) == {a \in 1..Len(approvals) : approvals[a].task_id = t}
PosOf(b) == {p \in 1..Len(pos) : pos[p].bom_id = b}

StageEdges ==
    { <<"draft", "pending">>, <<"pending", "parsing">>, <<"parsing", "matching">>,
      <<"matching", "awaiting_review">>, <<"matching", "generating_pos">>,
      <<"awaiting_review", "generating_pos">>, <<"generating_pos", "completed">> }
    \cup { <<s, "failed">> : s \in {"pending", "parsing", "matching", "awaiting_review",
                                    "generating_pos"} }

\* C1: within one run the BOM's processing status changes only along
\* parsing->matching, matching->awaiting_review, matching->generating,
\* awaiting_review->generating, generating->completed and non-terminal->failed;
\* the first stage a run records is parsing (pending, or draft->pending by the
\* process request, is the status before the run has recorded a stage), and
\* nothing leaves completed or failed.
C1_StageEdges ==
    [][\A b \in BomIds :
         Stage(b)' # Stage(b) => <<Stage(b), Stage(b)'>> \in StageEdges]_vars

\* a run that went through review and generation has completed
C1_Witness ==
    \E b \in BomIds : Stage(b) = "completed" /\ approvals # <<>> /\ pos # <<>>

\* C2: the BOM enters awaiting_review only from matching and only with an item
\* flagged needs_review, and it goes from matching straight to generating only
\* when no item is flagged, in which case no review request exists.
C2_ReviewBranch ==
    [][\A b \in BomIds :
         /\ (Stage(b) # "awaiting_review" /\ Stage(b)' = "awaiting_review")
               => (Stage(b) = "matching" /\ Flagged(b) # {})
         /\ (Stage(b) = "matching" /\ Stage(b)' = "generating_pos")
               => (Flagged(b) = {} /\ approvals' = <<>>)]_vars

\* a BOM with one item matched and one flagged is awaiting review
C2_Witness ==
    \E b \in BomIds :
        /\ Stage(b) = "awaiting_review"
        /\ Flagged(b) # {}
        /\ \E i \in 1..Len(items) : items[i].bom_id = b /\ items[i].status = "matched"

\* C3: once review requests exist for a run and none has been decided, the BOM
\* stays in awaiting_review (or failed), the task stays paused (or failed), and
\* no purchase order exists for the BOM.
C3_SuspendedUntilDecision ==
    \A t \in TaskIds :
        (ApprovalsOf(t) # {} /\ \A a \in ApprovalsOf(t) : approvals[a].status = "pending")
          => /\ Stage(TaskBom(t)) \in {"awaiting_review", "failed"}
             /\ tasks[t].status \in {"paused", "failed"}
             /\ PosOf(TaskBom(t)) = {}

Unreadable == [readable |-> FALSE, rows |-> <<>>]
ParseErrors == {ParseResult(ft, Unreadable).error : ft \in FileTypes}
ProgressInRange(p) == ProgLE(Whole(0), p) /\ ProgLE(p, Whole(100))
Raised(t) == runs[t].pc = "ended" /\ runs[t].exc # ""

C5_ParseFailureFails ==
    \A t \in TaskIds :
        (runs[t].pc = "ended" /\ runs[t].error \in ParseErrors)
          => /\ Stage(TaskBom(t)) = "failed"
             /\ ItemsOfBom(items, TaskBom(t)) = <<>>
             /\ boms[TaskBom(t)].processing_progress = Whole(0)

\* C6: in one run every progress value written to the task and to the BOM is
\* at least the one it replaces and lies in [0, 100], and a completed run
\* leaves 100 on both records.
C6_ProgressMonotone ==
    /\ [](/\ \A t \in TaskIds : ProgressInRange(tasks[t].progress)
          /\ \A b \in BomIds : ProgressInRange(boms[b].processing_progress)
          /\ \A t \in TaskIds :
                (runs[t].pc = "ended" /\ runs[t].completed)
                  => /\ tasks[t].progress = Whole(100)
                     /\ boms[TaskBom(t)].processing_progress = Whole(100))
    /\ [][/\ \A t \in TaskIds : ProgLE(tasks[t].progress, tasks'[t].progress)
          /\ \A b \in BomIds : ProgLE(boms[b].processing_progress, boms'[b].processing_progress)]_vars

\* a run over two items that went through review has completed
C6_Witness ==
    \E t \in TaskIds :
        /\ runs[t].pc = "ended" /\ runs[t].completed
        /\ Len(items) >= 2 /\ ApprovalsOf(t) # {}
        /\ boms[TaskBom(t)].processing_progress = Whole(100)

\* C7: the persisted progress of a BOM never decreases, whatever process
\* requests and runs follow one another.
C7_ProgressNeverBackward ==
    [][\A b \in BomIds : ProgLE(boms[b].processing_progress, boms'[b].processing_progress)]_vars

\* C8: once a cancel request has been accepted for a task whose run is in
\* progress, the task stays cancelled or failed and its BOM is not marked
\* completed.
C8_CancelledStaysCancelled ==
    [][\A t \in TaskIds :
         (tasks[t].status = "cancelled" /\ runs[t].pc \notin {"queued", "ended"})
           => /\ tasks'[t].status \in {"cancelled", "failed"}
              /\ Stage(TaskBom(t))' # "completed"]_vars

NewApprovals == SubSeq(approvals', Len(approvals) + 1, Len(approvals'))

C11_DecidedOnce ==
    [][\A a \in 1..Len(approvals) :
         approvals[a].status # "pending" => approvals'[a].status = approvals[a].status]_vars

\* the match data of a line item
MatchData(it) ==
    <<it.matched_supplier_id, it.matched_supplier_part_id, it.unit_cost, it.match_confidence>>

\* C12: when a decision on a supplier-match request is written, an approval
\* with a selected alternative leaves the item with that alternative's
\* supplier, supplier part, unit price and confidence (to the two decimals the
\* column keeps), status confirmed and method manual; an approval without
\* selection keeps the match data and sets confirmed and manual; a rejection
\* leaves the item as it was.
C12_DecisionEffect ==
    [][\A r \in inflight :
         (r \notin inflight' /\ approvals[r.approval_id].entity_type = "supplier_match"
            /\ approvals[r.approval_id].entity_id \in ItemIds(items))
           => LET id == approvals[r.approval_id].entity_id
                  it == ItemById(items, id)
                  after == ItemById(items', id)
              IN  /\ ~r.approved => after = it
                  /\ (r.approved /\ r.selected_option = Null)
                       => /\ MatchData(after) = MatchData(it)
                          /\ after.status = "confirmed" /\ after.match_method = "manual"
                  /\ (r.approved /\ r.selected_option # Null)
                       => LET alt == it.alternative_matches[r.selected_option + 1]
                          IN  /\ MatchData(after) = <<alt.supplier_id, alt.supplier_part_id,
                                                      alt.unit_price, RoundCent(alt.confidence)>>
                              /\ after.status = "confirmed" /\ after.match_method = "manual"]_vars

\* an item confirmed by a reviewer who selected one of its alternatives
C12_Witness ==
    \E i \in 1..Len(items) :
        /\ items[i].status = "confirmed" /\ items[i].match_method = "manual"
        /\ \E k \in 1..Len(items[i].alternative_matches) :
              items[i].alternative_matches[k].supplier_part_id = items[i].matched_supplier_part_id
        /\ \E a \in 1..Len(approvals) :
              approvals[a].entity_id = items[i].id /\ approvals[a].status = "approved"

ItemEdges ==
    { <<"pending", "matched">>, <<"pending", "needs_review">>, <<"matched", "confirmed">>,
      <<"needs_review", "confirmed">>, <<"confirmed", "ordered">> }

\* C13: the status of a line item changes only along pending -> matched,
\* pending -> needs_review, matched -> confirmed, needs_review -> confirmed and
\* confirmed -> ordered, whatever stages, decisions and sends follow one another.
C13_ItemLifecycle ==
    [][\A i \in 1..Len(items) :
         (i <= Len(items') /\ items'[i].id = items[i].id /\ items'[i].status # items[i].status)
           => <<items[i].status, items'[i].status>> \in ItemEdges]_vars

\* the lines of the purchase orders of BOM b that reference item id
PoLinesOf(b, id) ==
    {<<p, k>> \in PosOf(b) \X (1..MaxItems + 1) :
        k <= Len(pos[p].items) /\ pos[p].items[k].bom_item_id = id}

\* the entries of the generator's groups that reference item id
GroupEntriesOf(groups, id) ==
    {<<g, k>> \in (1..Len(groups)) \X (1..MaxItems + 1) :
        k <= Len(groups[g].items) /\ groups[g].items[k].bom_item_id = id}

\* C14: when generation starts, every item that is matched or confirmed with
\* a resolved supplier is put in exactly one supplier group; and once the run
\* has completed (its purchase orders not yet submitted), every such item is
\* confirmed and on exactly one purchase order of the run, and every line of
\* those orders is a confirmed item.
C14_CompletedAfterDrafts ==
    /\ [][\A t \in TaskIds :
            (runs[t].pc = "po_load" /\ runs'[t].pc = "po_create")
              => \A i \in 1..Len(items) :
                    (items[i].bom_id = TaskBom(t) /\ items[i].status \in {"matched", "confirmed"}
                       /\ items[i].matched_supplier_id # Null)
                      => Cardinality(GroupEntriesOf(runs'[t].groups, items[i].id)) = 1]_vars
    /\ [](\A t \in TaskIds :
            (runs[t].pc = "ended" /\ runs[t].completed)
              => LET b == TaskBom(t)
                 IN  /\ Stage(b) = "completed"
                     /\ \A i \in 1..Len(items) :
                           items[i].bom_id = b
                             => /\ items[i].status # "matched"
                                /\ (items[i].status = "confirmed" /\ items[i].match_method # "manual")
                                      => Cardinality(PoLinesOf(b, items[i].id)) = 1
                                /\ Cardinality(PoLinesOf(b, items[i].id)) <= 1
                                /\ PoLinesOf(b, items[i].id) # {} => items[i].status = "confirmed")

\* a completed run with an item on a purchase order and an item left in review
C14_Witness ==
    \E t \in TaskIds :
        /\ runs[t].pc = "ended" /\ runs[t].completed
        /\ \E i \in 1..Len(items) : PoLinesOf(TaskBom(t), items[i].id) # {}
        /\ \E i \in 1..Len(items) : items[i].status = "needs_review"

\* the item ids of a sequence of group entries or purchase order lines
LineIds(lines) == [k \in 1..Len(lines) |-> lines[k].bom_item_id]

\* C15: each supplier group the generator goes through yields exactly one new
\* purchase order, for the group's supplier, with status draft, flagged
\* auto-generated, referencing the BOM and holding the group's items in order;
\* when generation ends the run has one purchase order per group, all for
\* different suppliers, and the BOM has no other purchase order.
C15_OneDraftPerGroup ==
    [][\A t \in TaskIds :
         /\ (runs[t].pc = "po_create" /\ runs'[t].pc = "po_create"
               /\ runs'[t].idx = runs[t].idx + 1)
              => LET g == runs[t].groups[runs[t].idx + 1]
                     po == pos'[Len(pos')]
                 IN  /\ Len(pos') = Len(pos) + 1
                     /\ SubSeq(pos', 1, Len(pos)) = pos
                     /\ g.items # <<>>
                     /\ po.supplier_id = g.supplier_id
                     /\ po.status = "draft"
                     /\ po.is_auto_generated
                     /\ po.bom_id = TaskBom(t)
                     /\ LineIds(po.items) = LineIds(g.items)
         /\ (runs[t].pc = "po_create" /\ runs'[t].pc = "po_task90")
              => /\ Len(runs[t].draft_pos) = Len(runs[t].groups)
                 /\ PosOf(TaskBom(t)) = {runs[t].draft_pos[k] : k \in 1..Len(runs[t].draft_pos)}
                 /\ \A p, q \in PosOf(TaskBom(t)) :
                       p # q => pos[p].supplier_id # pos[q].supplier_id
                 /\ {pos[p].supplier_id : p \in PosOf(TaskBom(t))}
                       = {runs[t].groups[g].supplier_id : g \in 1..Len(runs[t].groups)}]_vars

\* generation has ended with two draft purchase orders for two suppliers
C15_Witness ==
    \E t \in TaskIds :
        /\ runs[t].pc = "po_task90"
        /\ \E p, q \in PosOf(TaskBom(t)) :
              /\ pos[p].supplier_id # pos[q].supplier_id
              /\ pos[p].status = "draft" /\ pos[q].status = "draft"
              /\ pos[p].is_auto_generated /\ pos[q].is_auto_generated

\* the positions of the input items resolved to supplier sid, in input order
ResolvedTo(input, sid) ==
    FilterSeq([k \in 1..Len(input) |-> input[k].id],
              {input[k].id : k \in {j \in 1..Len(input) : input[j].matched_supplier_id = sid}})

\* C16: the grouping partitions the items that have a supplier: the groups
\* have pairwise different keys, one per distinct supplier of the input; the
\* group of a supplier holds exactly the items resolved to it, in input
\* order; and no group is empty.
C16_GroupingPartitions ==
    (grouping # <<>> /\ grouping.results # <<>>)
      => LET input == grouping.input
             out == grouping.results[1]
             keys == {out[g].supplier_id : g \in 1..Len(out)}
         IN  /\ keys = {input[k].matched_supplier_id : k \in 1..Len(input)} \ {Null}
             /\ Len(out) = Cardinality(keys)
             /\ \A g \in 1..Len(out) :
                   /\ out[g].items # <<>>
                   /\ LineIds(out[g].items) = ResolvedTo(input, out[g].supplier_id)

\* two items for supplier 5 and one for supplier 9 gave two groups of sizes 2 and 1
C16_Witness ==
    /\ grouping # <<>> /\ grouping.results # <<>>
    /\ [k \in 1..Len(grouping.input) |-> grouping.input[k].matched_supplier_id] = <<5, 9, 5>>
    /\ Len(grouping.results[1]) = 2
    /\ Len(grouping.results[1][1].items) = 2
    /\ Len(grouping.results[1][2].items) = 1

RECURSIVE LineTotal(_)
\* the sum over purchase order lines of unit price x quantity
LineTotal(lines) ==
    IF lines = <<>> THEN 0
    ELSE Head(lines).unit_price * Head(lines).quantity + LineTotal(Tail(lines))

\* C17: the subtotal of every purchase order equals the sum over its lines of
\* unit price x quantity, a line without resolved price counting 0.
C17_SubtotalIsLineSum ==
    \A p \in 1..Len(pos) : pos[p].subtotal = LineTotal(pos[p].items)

\* the supplier part rows whose supplier part number or part number equals
\* the looked-up number after normalization
EqualEntries(sps) ==
    {k \in 1..Len(sps) :
        \/ NormalizePN(sps[k].supplier_part_number) = NormalizePN(lookup.part_number)
        \/ NormalizePN(Parts[PartById(sps[k].part_id)].part_number) = NormalizePN(lookup.part_number)}

\* C19 as stated: whenever the looked-up number equals, after normalization,
\* the part number or supplier part number of any catalog entry, the best
\* candidate is exact with confidence 1.0.
C19_ExactForAnyEntry ==
    (lookup # <<>> /\ lookup.done /\ EqualEntries(SupplierParts) # {})
      => /\ lookup.matches # <<>>
         /\ lookup.matches[1].confidence = ExactConfidence
         /\ lookup.matches[1].match_method = "exact"

\* C19: whenever the looked-up number equals, after normalization, the part
\* number or supplier part number of a catalog entry of an active supplier,
\* the best candidate is exact with confidence 1.0.
C19_ExactForActiveEntry ==
    (lookup # <<>> /\ lookup.done /\ EqualEntries(ActiveSupplierParts) # {})
      => /\ lookup.matches # <<>>
         /\ lookup.matches[1].confidence = ExactConfidence
         /\ lookup.matches[1].match_method = "exact"

\* "a-b1" looked up against the catalog number "AB1": best is exact, and the
\* list also holds fuzzy candidates
C19_Witness ==
    /\ lookup # <<>> /\ lookup.done
    /\ lookup.part_number = <<"a", "-", "b", "1">>
    /\ lookup.matches[1].confidence = ExactConfidence
    /\ \E k \in 1..Len(lookup.matches) : lookup.matches[k].match_method = "fuzzy"

\* C20: the best candidate and the alternatives of one match result come from
\* the same tier: no fuzzy candidate is offered when an exact one exists.
C20_SingleTier ==
    (lookup # <<>> /\ lookup.done /\ NormalizePN(lookup.part_number) # <<>>
       /\ lookup.matches # <<>>)
      => LET alternatives == Alternatives(lookup.matches)
         IN  \A k \in 1..Len(alternatives) :
                alternatives[k].match_method = lookup.matches[1].match_method

\* the normalized numbers of a catalog row that are stated
CatalogNumbers(sp) ==
    {NormalizePN(sp.supplier_part_number), NormalizePN(Parts[PartById(sp.part_id)].part_number)}
      \ {<<>>}

\* C21: every catalog row of an active supplier with a stated number that the
\* looked-up number is a substring of, or that the looked-up number contains,
\* and none of whose numbers equals it, is returned as a candidate with
\* confidence 0.85 and method fuzzy.
C21_FuzzyEitherDirection ==
    (lookup # <<>> /\ lookup.done /\ NormalizePN(lookup.part_number) # <<>>)
      => LET pn == NormalizePN(lookup.part_number)
         IN  \A k \in 1..Len(ActiveSupplierParts) :
                LET sp == ActiveSupplierParts[k]
                IN  (/\ pn \notin CatalogNumbers(sp)
                     /\ \E cat \in CatalogNumbers(sp) : Contains(cat, pn) \/ Contains(pn, cat))
                      => \E m \in 1..Len(lookup.matches) :
                            /\ lookup.matches[m].supplier_part_id = sp.id
                            /\ lookup.matches[m].confidence = FuzzyConfidence
                            /\ lookup.matches[m].match_method = "fuzzy"

\* the candidates the catalog tier returns for an item
CatalogTier(it) ==
    IF it.part_number_raw # NoPN THEN search_supplier_catalog_impl(it.part_number_raw) ELSE <<>>

\* the step of the matcher that settles the item at position idx + 1
MatchedOne(t) ==
    /\ runs[t].pc = "matcher_loop" /\ runs'[t].pc = "matcher_loop"
    /\ runs'[t].idx = runs[t].idx + 1

StatedPrice(m) ==
    LET row == CHOOSE k \in 1..Len(SupplierParts) : SupplierParts[k].id = m.supplier_part_id
    IN  SupplierParts[row].unit_price

\* a ranks strictly before b: higher confidence, then preferred, then lower
\* stated price, a stated price before none
RanksBefore(a, b) ==
    \/ a.confidence > b.confidence
    \/ a.confidence = b.confidence /\ a.is_preferred /\ ~b.is_preferred
    \/ /\ a.confidence = b.confidence /\ a.is_preferred = b.is_preferred
       /\ StatedPrice(a) # Null
       /\ (StatedPrice(b) = Null \/ StatedPrice(a) < StatedPrice(b))

\* C23: the candidates of a search are in ranking order (no candidate is
\* listed after one it ranks strictly before), so that best is the first in
\* the order and the alternatives follow; a price of 0 is a stated price.
C23_RankedByTotalOrder ==
    (lookup # <<>> /\ lookup.done)
      => \A i, j \in 1..Len(lookup.matches) :
            i < j => ~RanksBefore(lookup.matches[j], lookup.matches[i])

\* C24: a catalog search that raises for an item does not fail the run: no
\* task and no BOM is recorded as failed with the exception of the search.
C24_CatalogFailureTolerated ==
    \A t \in TaskIds :
        /\ ~(tasks[t].status = "failed" /\ tasks[t].error_message = CatalogSearchError)
        /\ ~(Stage(TaskBom(t)) = "failed"
               /\ boms[TaskBom(t)].processing_error = CatalogSearchError)

\* C25: when the semantic search raises for an item, or cannot be used for
\* want of the embedding key, and the catalog tier gave no candidate, the
\* matcher settles the item as needs_review with the reason "No supplier match
\* found" and without supplier, and goes on to the next item: the loop
\* advances and no exception leaves the stage.
C25_SemanticFailureDegrades ==
    [][\A t \in TaskIds :
         (/\ runs[t].pc = "matcher_loop" /\ runs[t].idx < Len(runs[t].sess)
          /\ runs'[t] # runs[t]
          /\ CatalogTier(runs[t].sess[runs[t].idx + 1]) = <<>>
          /\ \/ runs'[t].semantic_error
             \/ (~openai_api_key /\ MatchedOne(t)))
           => /\ MatchedOne(t)
              /\ runs'[t].exc = ""
              /\ LET it == runs'[t].sess[runs'[t].idx]
                 IN  /\ it.status = "needs_review"
                     /\ it.review_reason = "No supplier match found"
                     /\ it.matched_supplier_id = Null
                     /\ it.alternative_matches = <<>>
                     /\ runs'[t].best_match = <<>>]_vars

\* the semantic search raised for the first item (it has a description, the
\* key is set and it has no match), and the second item was matched after it
C25_Witness ==
    \E t \in TaskIds :
        /\ runs[t].pc = "matcher_loop" /\ runs[t].idx = 2
        /\ openai_api_key
        /\ runs[t].sess[1].description_raw # NoDesc
        /\ runs[t].sess[1].status = "needs_review"
        /\ runs[t].sess[1].review_reason = "No supplier match found"
        /\ runs[t].sess[2].status = "matched"

\* the positions of a run at which the next call is a progress report
ProgressPcs ==
    {"parser_task10", "parser_bom10", "parser_task25", "parser_bom25",
     "matcher_task30", "matcher_bom30", "matcher_task60", "matcher_bom60",
     "po_task70", "po_bom70", "po_task90", "po_bom90"}

\* C26: a progress report that raises is swallowed: from a position where the
\* run is about to report progress, no step takes the run out of the graph
\* into the failure handler.
C26_ProgressFailureSwallowed ==
    [][\A t \in TaskIds : runs[t].pc \in ProgressPcs => runs'[t].pc # "handler"]_vars

\* C27: processing a BOM again after its run has ended leaves no two draft
\* purchase orders for the same BOM and supplier and no two pending review
\* requests for the same line item.
C27_RetryIdempotent ==
    /\ \A p, q \in 1..Len(pos) :
          (p # q /\ pos[p].bom_id = pos[q].bom_id /\ pos[p].status = "draft" /\ pos[q].status = "draft")
            => pos[p].supplier_id # pos[q].supplier_id
    /\ \A a, c \in 1..Len(approvals) :
          (a # c /\ approvals[a].entity_type = "supplier_match" /\ approvals[c].entity_type = "supplier_match"
             /\ approvals[a].status = "pending" /\ approvals[c].status = "pending")
            => approvals[a].entity_id # approvals[c].entity_id

\* the rows of a table that belong to BOM b, and the review requests of task t
PosOfBom(rows, b) == FilterSeq(rows, {rows[i] : i \in {j \in 1..Len(rows) : rows[j].bom_id = b}})
ApprovalsOfTask(rows, t) ==
    FilterSeq(rows, {rows[i] : i \in {j \in 1..Len(rows) : rows[j].task_id = t}})

\* C28: a step of the run of one BOM leaves the other BOM's record (status,
\* progress), task, line items, review requests and purchase orders as they
\* were; and no run raises, as none does when it runs alone with the store
\* available.
C28_RunsIndependent ==
    /\ [][\A u \in TaskIds :
            runs'[u] = runs[u]
              => /\ tasks'[u] = tasks[u]
                 /\ boms'[TaskBom(u)] = boms[TaskBom(u)]
                 /\ ItemsOfBom(items', TaskBom(u)) = ItemsOfBom(items, TaskBom(u))
                 /\ ApprovalsOfTask(approvals', u) = ApprovalsOfTask(approvals, u)
                 /\ PosOfBom(pos', TaskBom(u)) = PosOfBom(pos, TaskBom(u))]_vars
    /\ [](\A t \in TaskIds : runs[t].exc = "")

\* the runs of BOM b that are queued or executing
ActiveRuns(b) == {t \in TaskIds : TaskBom(t) = b /\ runs[t].pc # "ended"}

\* C29: at most one run per BOM is queued or executing at any time, and a
\* process request creates a task only when the BOM has no such run.
C29_OneActiveRun ==
    /\ [](\A b \in BomIds : Cardinality(ActiveRuns(b)) <= 1)
    /\ [][\A b \in BomIds : (Len(tasks') > Len(tasks) /\ tasks'[Len(tasks')].entity_id = b)
                               => ActiveRuns(b) = {}]_vars

\* C30: a run whose state carries an error (the parse failed, or the BOM was
\* gone when matching or generation started) leaves its task, and its BOM if
\* it exists, not completed.
C30_ErrorNeverCompletes ==
    \A t \in TaskIds :
        runs[t].error # ""
          => /\ tasks[t].status # "completed"
             /\ BomExists(TaskBom(t)) => boms[TaskBom(t)].processing_status # "completed"

\* C31: the PO number a create request is given is carried by no purchase
\* order, after any creations and draft deletions and with two requests
\* creating at once, and so no create request fails at its INSERT: every
\* request that leaves the handler has added its purchase order
C31_FreshPoNumber ==
    [][/\ \A r \in Creating' \ Creating :
             \A p \in PoIds(pos) : pos[p].po_number # r.po_number
       /\ \A r \in Creating \ Creating' :
             /\ Len(pos') = Len(pos) + 1
             /\ pos'[Len(pos')].po_number = r.po_number]_vars

\* C32: in every reachable state a line item whose status is confirmed or
\* ordered has a resolved supplier; approving the review request of an item
\* for which no supplier was found leaves no confirmed item without one
C32_ConfirmedHasSupplier ==
    \A i \in 1..Len(items) :
        items[i].status \in {"confirmed", "ordered"} => items[i].matched_supplier_id # Null

\* the lines of the drafts of run t that carry item id
RunLinesOf(t, id) ==
    {<<p, k>> \in (1..Len(pos)) \X (1..MaxItems) :
        /\ \E d \in 1..Len(runs[t].draft_pos) : runs[t].draft_pos[d] = p
        /\ k <= Len(pos[p].items)
        /\ pos[p].items[k].bom_item_id = id}

\* C33: an item that is needs_review or pending when the generating stage
\* reads the items is in no supplier group, each draft carries exactly the
\* items of its group, and no item is on more than one draft line of a run
C33_OnlyEligibleOnDrafts ==
    /\ [][\A t \in TaskIds :
            /\ (runs[t].pc = "po_load" /\ runs'[t].pc = "po_create")
                  => \A i \in 1..Len(items) :
                        (items[i].bom_id = TaskBom(t) /\ items[i].status \in {"needs_review", "pending"})
                          => GroupEntriesOf(runs'[t].groups, items[i].id) = {}
            /\ (runs[t].pc = "po_create" /\ Len(runs'[t].draft_pos) = Len(runs[t].draft_pos) + 1)
                  => /\ Len(pos') = Len(pos) + 1
                     /\ runs'[t].draft_pos[Len(runs'[t].draft_pos)] = Len(pos')
                     /\ LineIds(pos'[Len(pos')].items)
                           = LineIds(runs[t].groups[runs[t].idx + 1].items)]_vars
    /\ [](\A t \in TaskIds : \A i \in 1..Len(items) :
            Cardinality(RunLinesOf(t, items[i].id)) <= 1)

\* a run has put one item on a draft and left an item that was in review
\* when it read the items off every draft
C33_Witness ==
    \E t \in TaskIds :
        /\ runs[t].draft_pos # <<>>
        /\ \E i \in 1..Len(items) : Cardinality(RunLinesOf(t, items[i].id)) = 1
        /\ \E i \in 1..Len(items) :
              /\ items[i].status = "needs_review"
              /\ items[i].matched_supplier_id # Null
              /\ RunLinesOf(t, items[i].id) = {}

\* C34: in every state of a single run the persisted snapshot is consistent:
\* both progress values lie in [0, 100], the BOM is completed only with
\* progress 100 and a completed task, and the task is paused only while the
\* BOM is awaiting_review
C34_SnapshotConsistent ==
    \A t \in TaskIds :
        LET b == TaskBom(t)
        IN  /\ ProgressInRange(tasks[t].progress)
            /\ ProgressInRange(boms[b].processing_progress)
            /\ Stage(b) = "completed"
                  => /\ boms[b].processing_progress = Whole(100)
                     /\ tasks[t].status = "completed"
            /\ tasks[t].status = "paused" => Stage(b) = "awaiting_review"

\* C35: a successful parse leaves as the BOM's persisted items exactly the
\* parsed items of this run, none of them an item of an earlier run, each
\* pending and with a line number of its own, and the BOM's total_items is
\* their number; and when matching starts the progress of the task and of
\* the BOM is 25
C35_ParseReplacesItems ==
    /\ [][\A t \in TaskIds :
            (runs[t].pc = "parser_parse" /\ runs'[t].pc = "parser_task25")
              => LET b == TaskBom(t)
                     stored == ItemsOfBom(items', b)
                     parsed == runs'[t].parsed_items
                 IN  /\ Len(stored) = Len(parsed)
                     /\ boms'[b].total_items = Len(parsed)
                     /\ \A k \in 1..Len(stored) :
                           /\ stored[k].line_number = parsed[k].line_number
                           /\ stored[k].part_number_raw = parsed[k].part_number_raw
                           /\ stored[k].description_raw = parsed[k].description_raw
                           /\ stored[k].quantity = parsed[k].quantity
                           /\ stored[k].status = "pending"
                           /\ stored[k].id \notin ItemIds(items)
                     /\ \A k, l \in 1..Len(stored) :
                           k # l => stored[k].line_number # stored[l].line_number]_vars
    /\ [](\A t \in TaskIds :
            runs[t].pc = "matcher_task30"
              => LET b == TaskBom(t)
                     stored == ItemsOfBom(items, b)
                 IN  /\ tasks[t].progress = Whole(25)
                     /\ boms[b].processing_progress = Whole(25)
                     /\ boms[b].total_items = Len(stored)
                     /\ Len(stored) = Len(runs[t].parsed_items)
                     /\ \A k \in 1..Len(stored) : stored[k].status = "pending")

\* a second run of a BOM of two rows is about to start matching
C35_Witness ==
    \E t \in TaskIds :
        /\ t > 1
        /\ runs[t].pc = "matcher_task30"
        /\ Len(ItemsOfBom(items, TaskBom(t))) = 2
        /\ next_item_id > 4

\* the status changes the purchase-order endpoints are said to make
PoEdges ==
    {<<"draft", "pending_approval">>, <<"draft", "approved">>,
     <<"pending_approval", "approved">>, <<"pending_approval", "draft">>,
     <<"approved", "sent">>, <<"sent", "acknowledged">>,
     <<"sent", "received">>, <<"acknowledged", "received">>}

\* C36: the status of a purchase order changes only along the listed edges;
\* a purchase order that requires approval becomes approved only from
\* pending_approval, with its pending request approved in the same step, and
\* is sent only from approved; only a draft is deleted; and a received or
\* deleted purchase order is never written again
C36_PoLifecycle ==
    [][/\ Len(pos') = Len(pos)
       /\ \A p \in 1..Len(pos) :
             /\ pos'[p] # pos[p] => pos[p].status \notin {"received", "deleted"}
             /\ pos'[p] = DeletedPo /\ pos[p] # DeletedPo => pos[p].status = "draft"
             /\ (pos'[p].status # pos[p].status /\ pos'[p] # DeletedPo)
                   => <<pos[p].status, pos'[p].status>> \in PoEdges
             /\ (pos[p].requires_approval /\ pos'[p].status = "approved"
                    /\ pos[p].status # "approved")
                   => /\ pos[p].status = "pending_approval"
                      /\ \A a \in PendingPoApprovals(p) : approvals'[a].status = "approved"
             /\ (pos'[p].status = "sent" /\ pos[p].status # "sent")
                   => pos[p].status = "approved"]_vars

\* one purchase order that required approval has been received and another
\* has been deleted
C36_Witness ==
    /\ \E p \in 1..Len(pos) : pos[p].requires_approval /\ pos[p].status = "received"
    /\ \E p \in 1..Len(pos) : pos[p] = DeletedPo

\* C37: a purchase order is in pending_approval exactly while it has one
\* pending approval request: deciding the request through either endpoint
\* takes the order out of pending_approval
C37_PendingIffRequest ==
    \A p \in PoIds(pos) :
        pos[p].status = "pending_approval" <=> Cardinality(PendingPoApprovals(p)) = 1

\* C38: with the limiter enabled and the cache connected, no more than
\* rate_limit_requests requests of one client are let through while its
\* counter lives, however its requests interleave, and a counter that exists
\* has an expiry or is about to be given one by the request that created it
C38_AdmissionsBounded ==
    /\ admitted <= RateLimitRequests
    /\ (cache.exists /\ ~cache.ttl) => \E r \in inflight : r.pc = "expire"
====
